---------------------------- MODULE Spec2Model ----------------------------
(***************************************************************************)
(* A model of millis-js: DateTime (src/src/datetime.ts, first class of    *)
(* the file), Duration (src/unnamed/part_005), Interval                   *)
(* (src/unnamed/part_003) and range (src/src/utils.ts).                   *)
(*                                                                         *)
(* A millisecond count v (a JavaScript number holding an integer) is      *)
(* written as the record [day |-> q, ms |-> r] with v = q * 86400000 + r  *)
(* and 0 <= r < 86400000, because the counts of real dates (about 1.7e12) *)
(* do not fit the 32-bit integers of the model checker.  All arithmetic   *)
(* on such values is exact, as it is on JavaScript numbers below 2^53.    *)
(***************************************************************************)
EXTENDS Integers, Sequences, FiniteSets, TLC

VARIABLES
    pc,       \* "ready" before the call under study, "done" after it
    recv,     \* the DateTime the call is invoked on (its millis())
    call,     \* the call made: [op |-> ..., arg |-> ...]
    ret,      \* the DateTime the call returned
    clock,    \* the wall clock, what Date.now() returns
    iv,       \* the Interval under study: [start |-> ..., end |-> ...]
    via,      \* how iv was constructed: [kind |-> "between" | "days", n |-> ...]
    out       \* the array returned by Interval.days() / Interval.years()

vars == <<pc, recv, call, ret, clock, iv, via, out>>

---------------------------------------------------------------------------
(* Millisecond counts *)

MS_PER_DAY == 86400000

Ms(q, r) == [day |-> q + (r \div MS_PER_DAY), ms |-> r % MS_PER_DAY]

Zero == [day |-> 0, ms |-> 0]

Add(a, b) == Ms(a.day + b.day, a.ms + b.ms)

Neg(a) == Ms(0 - a.day, 0 - a.ms)

Sub(a, b) == Add(a, Neg(b))

Less(a, b) == \/ a.day < b.day
              \/ a.day = b.day /\ a.ms < b.ms

Leq(a, b) == a = b \/ Less(a, b)

\* Math.abs
MathAbs(a) == IF Less(a, Zero) THEN Neg(a) ELSE a

---------------------------------------------------------------------------
(* The ECMAScript Date abstract operations the library calls (UTC only).   *)
(* A Date holds a millisecond count; Day(t) is its day field here.         *)

DayFromYear(y) ==
    365 * (y - 1970) + ((y - 1969) \div 4) - ((y - 1901) \div 100)
                     + ((y - 1601) \div 400)

DaysInYear(y) ==
    IF y % 4 # 0 THEN 365
    ELSE IF y % 100 # 0 THEN 366
    ELSE IF y % 400 # 0 THEN 365
    ELSE 366

InLeapYear(y) == IF DaysInYear(y) = 366 THEN 1 ELSE 0

\* YearFromTime: the largest y with DayFromYear(y) <= d
YearFromDay(d) ==
    LET y0 == 1970 + (d \div 366)
    IN  CHOOSE y \in (y0 - 1)..(y0 + 2) :
            DayFromYear(y) <= d /\ d < DayFromYear(y + 1)

\* first day-within-year of month m (0..11) ; m = 12 gives the year length
MonthStart(leap, m) ==
    CASE m = 0  -> 0
      [] m = 1  -> 31
      [] m = 2  -> 59 + leap
      [] m = 3  -> 90 + leap
      [] m = 4  -> 120 + leap
      [] m = 5  -> 151 + leap
      [] m = 6  -> 181 + leap
      [] m = 7  -> 212 + leap
      [] m = 8  -> 243 + leap
      [] m = 9  -> 273 + leap
      [] m = 10 -> 304 + leap
      [] m = 11 -> 334 + leap
      [] OTHER  -> 365 + leap

\* MonthFromTime, 0..11
MonthFromDay(d) ==
    LET y    == YearFromDay(d)
        leap == InLeapYear(y)
        dwy  == d - DayFromYear(y)
    IN  CHOOSE m \in 0..11 :
            MonthStart(leap, m) <= dwy /\ dwy < MonthStart(leap, m + 1)

\* DateFromTime, 1..31
DateFromDay(d) ==
    LET y    == YearFromDay(d)
        leap == InLeapYear(y)
        dwy  == d - DayFromYear(y)
    IN  dwy - MonthStart(leap, MonthFromDay(d)) + 1

\* MakeDay(year, month, date): month and date may lie outside their ranges
MakeDay(y, m, dt) ==
    LET ym == y + (m \div 12)
        mn == m % 12
    IN  DayFromYear(ym) + MonthStart(InLeapYear(ym), mn) + dt - 1

MakeTime(h, mi, s, milli) == h * 3600000 + mi * 60000 + s * 1000 + milli

\* Date.UTC reads a year of 0..99 as 1900 + year
MakeFullYear(y) == IF 0 <= y /\ y <= 99 THEN 1900 + y ELSE y

\* Date.UTC(year, month, date, hours, minutes, seconds, ms)
DateUTC(y, m, dt, h, mi, s, milli) ==
    Ms(MakeDay(MakeFullYear(y), m, dt), MakeTime(h, mi, s, milli))

getUTCFullYear(t) == YearFromDay(t.day)
getUTCMonth(t)    == MonthFromDay(t.day)
getUTCDate(t)     == DateFromDay(t.day)
getUTCHours(t)        == t.ms \div 3600000
getUTCMinutes(t)      == (t.ms \div 60000) % 60
getUTCSeconds(t)      == (t.ms \div 1000) % 60
getUTCMilliseconds(t) == t.ms % 1000

\* Date.prototype.setUTCDate / setUTCMonth / setUTCFullYear: the time within
\* the day is kept, the day is rebuilt by MakeDay from the changed field
setUTCDate(t, dt) ==
    Ms(MakeDay(getUTCFullYear(t), getUTCMonth(t), dt), t.ms)

setUTCMonth(t, m) ==
    Ms(MakeDay(getUTCFullYear(t), m, getUTCDate(t)), t.ms)

setUTCFullYear(t, y) ==
    Ms(MakeDay(y, getUTCMonth(t), getUTCDate(t)), t.ms)

---------------------------------------------------------------------------
(* Duration *)

\* A duration argument is a plain number of milliseconds, a Duration object
\* (both carry `value`) or a bag of fields; an omitted field reads as 0.
Bag(mo, ye, da, ho, mi, se, ml) ==
    [kind |-> "bag", value |-> Zero, months |-> mo, years |-> ye, days |-> da,
     hours |-> ho, minutes |-> mi, seconds |-> se, millis |-> ml]

Number(v) ==
    [kind |-> "number", value |-> v, months |-> 0, years |-> 0, days |-> 0,
     hours |-> 0, minutes |-> 0, seconds |-> 0, millis |-> 0]

DurationObject(v) ==
    [kind |-> "Duration", value |-> v, months |-> 0, years |-> 0, days |-> 0,
     hours |-> 0, minutes |-> 0, seconds |-> 0, millis |-> 0]

\* Duration.from(duration).millis()
DurationFrom(d) ==
    IF d.kind = "number" THEN d.value
    ELSE IF d.kind = "Duration" THEN d.value
    ELSE Add(Add(Add(Add(Ms(0, d.millis),
                         Ms(0, d.seconds * 1000)),
                     Ms(0, d.minutes * 60 * 1000)),
                 Ms(0, d.hours * 60 * 60 * 1000)),
             Ms(d.days, 0))

\* Duration.between(start, end).millis()
DurationBetween(start, end) == Sub(end, start)

\* Duration.return rounding an exact half downwards
DurationReturn_halfDown(v, factor, round) ==
    LET floor == v.day * (MS_PER_DAY \div factor) + (v.ms \div factor)
        rest  == v.ms % factor
    IN  IF round = "down" THEN floor
        ELSE IF round = "up" THEN (IF rest = 0 THEN floor ELSE floor + 1)
        ELSE (IF 2 * rest > factor THEN floor + 1 ELSE floor)

\* Duration.return applied to millis / factor, for a factor that divides a
\* day: round "down" is Math.floor, "up" is Math.ceil, "nearest" (round:
\* true) is Math.round, which rounds an exact half upwards
DurationReturn(v, factor, round) ==
    LET floor == v.day * (MS_PER_DAY \div factor) + (v.ms \div factor)
        rest  == v.ms % factor
    IN  IF round = "down" THEN floor
        ELSE IF round = "up" THEN (IF rest = 0 THEN floor ELSE floor + 1)
        ELSE (IF 2 * rest >= factor THEN floor + 1 ELSE floor)

\* Duration.seconds(options)
DurationSeconds(v, round) == DurationReturn(v, 1000, round)

\* Duration.minutes(options)
DurationMinutes(v, round) == DurationReturn(v, 60 * 1000, round)

\* Duration.hours(options)
DurationHours(v, round) == DurationReturn(v, 60 * 60 * 1000, round)

\* Duration.days(options)
DurationDays(v, round) == DurationReturn(v, 24 * 60 * 60 * 1000, round)

\* the remainder that is never negative
JsRemainder_floored(v, factor) == v.ms % factor

\* the % of JavaScript, whose result has the sign of the dividend, for a
\* factor that divides a day
JsRemainder(v, factor) ==
    LET r == v.ms % factor
    IN  IF Less(v, Zero) /\ r # 0 THEN r - factor ELSE r

\* Duration.iso() counting the hours of the whole value
DurationIso_totalHours(v) ==
    LET days    == v.day
        hours   == v.day * 24 + (v.ms \div (60 * 60 * 1000))
        minutes == JsRemainder(v, 60 * 60 * 1000) \div (60 * 1000)
        seconds == JsRemainder(v, 60 * 1000) \div 1000
        date    == IF days > 0 THEN "P" \o ToString(days) \o "D" ELSE "P"
        time    == (IF hours > 0 THEN ToString(hours) \o "H" ELSE "")
                     \o (IF minutes > 0 THEN ToString(minutes) \o "M" ELSE "")
                     \o (IF seconds > 0 THEN ToString(seconds) \o "S" ELSE "")
        iso     == IF hours > 0 \/ minutes > 0 \/ seconds > 0
                   THEN date \o "T" \o time
                   ELSE date
    IN  IF iso = "P" THEN "PT0S" ELSE iso

\* Duration.iso(): Math.floor(value / day) is the day field of the value
DurationIso(v) ==
    LET days    == v.day
        hours   == JsRemainder(v, 24 * 60 * 60 * 1000) \div (60 * 60 * 1000)
        minutes == JsRemainder(v, 60 * 60 * 1000) \div (60 * 1000)
        seconds == JsRemainder(v, 60 * 1000) \div 1000
        date    == IF days > 0 THEN "P" \o ToString(days) \o "D" ELSE "P"
        time    == (IF hours > 0 THEN ToString(hours) \o "H" ELSE "")
                     \o (IF minutes > 0 THEN ToString(minutes) \o "M" ELSE "")
                     \o (IF seconds > 0 THEN ToString(seconds) \o "S" ELSE "")
        iso     == IF hours > 0 \/ minutes > 0 \/ seconds > 0
                   THEN date \o "T" \o time
                   ELSE date
    IN  IF iso = "P" THEN "PT0S" ELSE iso

---------------------------------------------------------------------------
(* DateTime *)

year(x)        == getUTCFullYear(x)
month(x)       == getUTCMonth(x) + 1
dayOfMonth(x)  == getUTCDate(x)
hour(x)        == getUTCHours(x)
minute(x)      == getUTCMinutes(x)
second(x)      == getUTCSeconds(x)
millisecond(x) == getUTCMilliseconds(x)

dayOfYear(x) ==
    LET startOfYear == DateUTC(getUTCFullYear(x), 0, 1, 0, 0, 0, 0)
    IN  Sub(x, startOfYear).day + 1

\* String.prototype.padStart(length, '0')
RECURSIVE padStart(_, _)
padStart(s, length) ==
    IF Len(s) >= length THEN s ELSE padStart("0" \o s, length)

\* utils.pad
pad(value, length) == padStart(ToString(value), length)

\* x.format(format) for the literal formats
format(x, f) ==
    CASE f = "YYYY" -> pad(year(x), 4)
      [] f = "YYYY-DDD" -> pad(year(x), 4) \o "-" \o pad(dayOfYear(x), 3)
      [] f = "YYYY-MM-DD" ->
           pad(year(x), 4) \o "-" \o pad(month(x), 2) \o "-" \o pad(dayOfMonth(x), 2)
      [] f = "HH:mm:ss" ->
           pad(hour(x), 2) \o ":" \o pad(minute(x), 2) \o ":" \o pad(second(x), 2)

\* x.date(): a new Date object holding the millisecond value
dateObject(x) == [time |-> x]

\* The numbers that are not millisecond counts
NaN == [special |-> "NaN"]
PosInfinity == [special |-> "Infinity"]
NegInfinity == [special |-> "-Infinity"]

NumberIsNaN(v) == v = NaN

NumberIsFinite(v) == v \notin {NaN, PosInfinity, NegInfinity}

\* what a call that makes a DateTime ends in: an instance, or an error
Instance(v) == [threw |-> FALSE, value |-> v]
Throws(e) == [threw |-> TRUE, error |-> e]

\* new DateTime(value)
DateTimeNew(value) ==
    IF NumberIsNaN(value) THEN Throws("Invalid date time") ELSE Instance(value)

\* DateTime.millis(): Date.now(), the reading of the wall clock `c`
DateTimeMillis(c) == c

\* DateTime.now()
DateTimeNow(c) == DateTimeNew(DateTimeMillis(c)).value

\* The values handed to DateTime.from.  A component bag lists in `has` the
\* keys it carries; a field whose key is missing is not read.
NumberLike(v) == [type |-> "number", value |-> v]
DateLike(t) == [type |-> "Date", time |-> t]
DateTimeLike(v) == [type |-> "DateTime", value |-> v]
OrdinalString(y, doy) == [type |-> "YYYY-DDD", year |-> y, dayOfYear |-> doy]
OtherString(len) == [type |-> "string", length |-> len]
Other(t) == [type |-> t]
Components(has, y, doy, mo, dom, h, mi, s, ml) ==
    [type |-> "components", has |-> has, year |-> y, dayOfYear |-> doy,
     month |-> mo, dayOfMonth |-> dom,
     hour |-> h, minute |-> mi, second |-> s, millisecond |-> ml]

\* DateTime.from of a component bag
fromComponents(c) ==
    IF "year" \notin c.has
    THEN Throws("Invalid type for date time")
    ELSE
      LET year_       == c.year
          hour_       == IF "hour" \in c.has THEN c.hour ELSE 0
          minute_     == IF "minute" \in c.has THEN c.minute ELSE 0
          second_     == IF "second" \in c.has THEN c.second ELSE 0
          millisecond_ == IF "millisecond" \in c.has THEN c.millisecond ELSE 0
      IN
        IF "dayOfYear" \in c.has
        THEN
          LET date == setUTCDate(DateUTC(year_, 0, 1, hour_, minute_, second_,
                                         millisecond_),
                                 c.dayOfYear)
          IN  IF getUTCFullYear(date) # year_
              THEN Throws("Invalid day of year")
              ELSE DateTimeNew(date)
        ELSE
          \* Date.UTC of an undefined month or date is NaN, and so are the
          \* fields of that Date, which differ from the supplied year
          IF "month" \notin c.has \/ "dayOfMonth" \notin c.has
          THEN Throws("Invalid date components")
          ELSE
            LET date == DateUTC(year_, c.month - 1, c.dayOfMonth, hour_,
                                minute_, second_, millisecond_)
            IN  IF \/ getUTCFullYear(date) # year_
                   \/ getUTCMonth(date) # c.month - 1
                   \/ getUTCDate(date) # c.dayOfMonth
                THEN Throws("Invalid date components")
                ELSE DateTimeNew(date)

\* DateTime.from(dateTime)
DateTimeFrom(d) ==
    CASE d.type = "number" -> DateTimeNew(d.value)
      \* a string of 4 or 10 characters that is not YYYY or YYYY-MM-DD falls
      \* through to the end; any other string that is not a date is parsed
      \* by Date.parse, which gives NaN
      [] d.type = "string" ->
           IF d.length \in {4, 8, 10}
           THEN Throws("Invalid type for date time")
           ELSE DateTimeNew(NaN)
      \* YYYY-DDD: both parts go through parseNumber
      [] d.type = "YYYY-DDD" ->
           fromComponents(Components({"year", "dayOfYear"}, d.year, d.dayOfYear,
                                     0, 0, 0, 0, 0, 0))
      [] d.type = "Date" -> DateTimeNew(d.time)
      [] d.type = "DateTime" -> DateTimeNew(d.value)
      [] d.type = "components" -> fromComponents(d)
      \* undefined, null, {}
      [] OTHER -> Throws("Invalid type for date time")

startOf(x, unit) ==
    CASE unit = "second" ->
           DateUTC(getUTCFullYear(x), getUTCMonth(x), getUTCDate(x),
                   getUTCHours(x), getUTCMinutes(x), getUTCSeconds(x), 0)
      [] unit = "minute" ->
           DateUTC(getUTCFullYear(x), getUTCMonth(x), getUTCDate(x),
                   getUTCHours(x), getUTCMinutes(x), 0, 0)
      [] unit = "hour" ->
           DateUTC(getUTCFullYear(x), getUTCMonth(x), getUTCDate(x),
                   getUTCHours(x), 0, 0, 0)
      [] unit = "day" ->
           DateUTC(getUTCFullYear(x), getUTCMonth(x), getUTCDate(x), 0, 0, 0, 0)
      [] unit = "month" ->
           DateUTC(getUTCFullYear(x), getUTCMonth(x), 1, 0, 0, 0, 0)
      [] unit = "year" ->
           DateUTC(getUTCFullYear(x), 0, 1, 0, 0, 0, 0)

\* endOf taking every month to have 31 days
endOf_day31(x, unit) ==
    CASE unit = "second" ->
           DateUTC(getUTCFullYear(x), getUTCMonth(x), getUTCDate(x),
                   getUTCHours(x), getUTCMinutes(x), getUTCSeconds(x), 999)
      [] unit = "minute" ->
           DateUTC(getUTCFullYear(x), getUTCMonth(x), getUTCDate(x),
                   getUTCHours(x), getUTCMinutes(x), 59, 999)
      [] unit = "hour" ->
           DateUTC(getUTCFullYear(x), getUTCMonth(x), getUTCDate(x),
                   getUTCHours(x), 59, 59, 999)
      [] unit = "day" ->
           DateUTC(getUTCFullYear(x), getUTCMonth(x), getUTCDate(x),
                   23, 59, 59, 999)
      [] unit = "month" ->
           DateUTC(getUTCFullYear(x), getUTCMonth(x), 31, 23, 59, 59, 999)
      [] unit = "year" ->
           DateUTC(getUTCFullYear(x), 11, 31, 23, 59, 59, 999)

endOf(x, unit) ==
    CASE unit = "second" ->
           DateUTC(getUTCFullYear(x), getUTCMonth(x), getUTCDate(x),
                   getUTCHours(x), getUTCMinutes(x), getUTCSeconds(x), 999)
      [] unit = "minute" ->
           DateUTC(getUTCFullYear(x), getUTCMonth(x), getUTCDate(x),
                   getUTCHours(x), getUTCMinutes(x), 59, 999)
      [] unit = "hour" ->
           DateUTC(getUTCFullYear(x), getUTCMonth(x), getUTCDate(x),
                   getUTCHours(x), 59, 59, 999)
      [] unit = "day" ->
           DateUTC(getUTCFullYear(x), getUTCMonth(x), getUTCDate(x),
                   23, 59, 59, 999)
      [] unit = "month" ->
           DateUTC(getUTCFullYear(x), getUTCMonth(x) + 1, 0, 23, 59, 59, 999)
      [] unit = "year" ->
           DateUTC(getUTCFullYear(x), 11, 31, 23, 59, 59, 999)

isStartOf(x, unit) == x = startOf(x, unit)

isEndOf(x, unit) == x = endOf(x, unit)

\* isSame comparing the start of this unit with the other instant itself
isSame_otherAsIs(x, d, unit) == startOf(x, unit) = d

\* x.isSame<Unit>(d), d a DateTime
isSame(x, d, unit) == startOf(x, unit) = startOf(d, unit)

isStartOfDay(x) == isStartOf(x, "day")

isStartOfYear(x) == isStartOf(x, "year")

\* absoluteDuration leaving `days` out of the fields it passes on
absoluteDuration_noDays(d) ==
    DurationFrom(Bag(0, 0, 0, d.hours, d.minutes, d.seconds, d.millis))

absoluteDuration(d) ==
    DurationFrom(Bag(0, 0, d.days, d.hours, d.minutes, d.seconds, d.millis))

\* relativeDuration restoring the day without the Math.min clamp
relativeDuration_noClamp(x, d, isMinus) ==
    LET sign        == IF isMinus THEN -1 ELSE 1
        currentDay  == getUTCDate(x)
        t1          == setUTCDate(x, 1)
        t2          == setUTCFullYear(t1, getUTCFullYear(t1) + d.years * sign)
        t3          == setUTCMonth(t2, getUTCMonth(t2) + d.months * sign)
        targetDate  == setUTCDate(t3, currentDay)
    IN  MathAbs(DurationBetween(x, targetDate))

\* relativeDuration applying the direction to the months but not to the years
relativeDuration_yearsUnsigned(x, d, isMinus) ==
    LET sign        == IF isMinus THEN -1 ELSE 1
        currentDay  == getUTCDate(x)
        t1          == setUTCDate(x, 1)
        t2          == setUTCFullYear(t1, getUTCFullYear(t1) + d.years)
        t3          == setUTCMonth(t2, getUTCMonth(t2) + d.months * sign)
        daysInMonth == getUTCDate(DateUTC(getUTCFullYear(t3),
                                          getUTCMonth(t3) + 1, 0, 0, 0, 0, 0))
        targetDate  == setUTCDate(t3, IF currentDay < daysInMonth
                                      THEN currentDay ELSE daysInMonth)
    IN  MathAbs(DurationBetween(x, targetDate))

relativeDuration(x, d, isMinus) ==
    LET sign        == IF isMinus THEN -1 ELSE 1
        currentDay  == getUTCDate(x)
        t1          == setUTCDate(x, 1)
        t2          == setUTCFullYear(t1, getUTCFullYear(t1) + d.years * sign)
        t3          == setUTCMonth(t2, getUTCMonth(t2) + d.months * sign)
        daysInMonth == getUTCDate(DateUTC(getUTCFullYear(t3),
                                          getUTCMonth(t3) + 1, 0, 0, 0, 0, 0))
        targetDate  == setUTCDate(t3, IF currentDay < daysInMonth
                                      THEN currentDay ELSE daysInMonth)
    IN  MathAbs(DurationBetween(x, targetDate))

\* plus resolving the relative part against x already moved by the absolute part
plus_absoluteFirst(x, a) ==
    LET millis == IF a.kind = "number" THEN a.value
                  ELSE IF a.kind = "Duration" THEN a.value
                  ELSE Add(relativeDuration(Add(x, absoluteDuration(a)), a, FALSE),
                           absoluteDuration(a))
    IN  Add(x, millis)

plus(x, a) ==
    LET millis == IF a.kind = "number" THEN a.value
                  ELSE IF a.kind = "Duration" THEN a.value
                  ELSE Add(relativeDuration(x, a, FALSE), absoluteDuration(a))
    IN  Add(x, millis)

\* minus resolving the relative part forwards, as plus does
minus_forward(x, a) ==
    LET millis == IF a.kind = "number" THEN a.value
                  ELSE IF a.kind = "Duration" THEN a.value
                  ELSE Add(relativeDuration(x, a, FALSE), absoluteDuration(a))
    IN  Sub(x, millis)

minus(x, a) ==
    LET millis == IF a.kind = "number" THEN a.value
                  ELSE IF a.kind = "Duration" THEN a.value
                  ELSE Add(relativeDuration(x, a, TRUE), absoluteDuration(a))
    IN  Sub(x, millis)

\* The argument of the comparisons is a DateTime: DateTime.from makes of it
\* an instance of the same millis(), and < and > compare through valueOf().

\* x.isBefore(d) with <= for <
isBefore_orEqual(x, d) == Leq(x, d)

\* x.isBefore(d)
isBefore(x, d) == Less(x, d)

\* x.isAfter(d)
isAfter(x, d) == Less(d, x)

\* x.isBetween(start, end)
isBetween(x, start, end) == isAfter(x, start) /\ isBefore(x, end)

\* x.equals(d)
equals(x, d) == x = d

\* x.compare(d) taking the difference the other way round
compare_reversed(x, d) == Sub(d, x)

\* x.compare(d)
compare(x, d) == Sub(x, d)

---------------------------------------------------------------------------
(* utils.range and Interval *)

\* range(start, end) with the end among the numbers
range_inclusive(start, end) ==
    LET length == (IF end >= start THEN end - start ELSE start - end) + 1
        step   == IF end >= start THEN 1 ELSE -1
    IN  [i \in 1..length |-> start + (i - 1) * step]

\* range(start, end): |end - start| numbers from start, stepping towards end
range(start, end) ==
    LET length == IF end >= start THEN end - start ELSE start - end
        step   == IF end >= start THEN 1 ELSE -1
    IN  [i \in 1..length |-> start + (i - 1) * step]

\* Interval.between(start, end), both already DateTimes
IntervalBetween(start, end) == [start |-> start, end |-> end]

\* Interval.days(days), the static factory, with `now` read from the clock
IntervalOfDays(now, days) ==
    [start |-> now, end |-> plus(now, Bag(0, 0, days, 0, 0, 0, 0))]

\* Interval.days() with the day count rounded up
IntervalDays_roundUp(i) ==
    LET startDate == i.start
        endDate   == IF isStartOfDay(i.end)
                     THEN minus(i.end, Bag(0, 0, 0, 0, 0, 0, 1))
                     ELSE i.end
        days      == DurationDays(DurationBetween(startDate, endDate), "up")
        r         == range(0, days + 1)
    IN  [k \in DOMAIN r |-> plus(startDate, Bag(0, 0, r[k], 0, 0, 0, 0))]

\* Interval.days() counting up to the unadjusted end
IntervalDays_noAdjust(i) ==
    LET startDate == i.start
        endDate   == i.end
        days      == DurationDays(DurationBetween(startDate, endDate), "down")
        r         == range(0, days + 1)
    IN  [k \in DOMAIN r |-> plus(startDate, Bag(0, 0, r[k], 0, 0, 0, 0))]

\* Interval.days(), the instance method
IntervalDays(i) ==
    LET startDate == i.start
        endDate   == IF isStartOfDay(i.end)
                     THEN minus(i.end, Bag(0, 0, 0, 0, 0, 0, 1))
                     ELSE i.end
        days      == DurationDays(DurationBetween(startDate, endDate), "down")
        r         == range(0, days + 1)
    IN  [k \in DOMAIN r |-> plus(startDate, Bag(0, 0, r[k], 0, 0, 0, 0))]

\* Interval.days() of the earlier revision: the day count rounded up
IntervalDaysEarlier(i) ==
    LET days == DurationDays(DurationBetween(i.start, i.end), "up")
        r    == range(0, days)
    IN  [k \in DOMAIN r |-> plus(i.start, Bag(0, 0, r[k], 0, 0, 0, 0))]

\* Interval.years() counting up to the unadjusted end
IntervalYears_noAdjust(i) ==
    LET startDate == i.start
        endDate   == i.end
        years     == year(endDate) - year(startDate)
        r         == range(0, years + 1)
    IN  [k \in DOMAIN r |-> plus(startDate, Bag(0, r[k], 0, 0, 0, 0, 0))]

\* Interval.years()
IntervalYears(i) ==
    LET startDate == i.start
        endDate   == IF isStartOfYear(i.end)
                     THEN minus(i.end, Bag(0, 0, 0, 0, 0, 0, 1))
                     ELSE i.end
        years     == year(endDate) - year(startDate)
        r         == range(0, years + 1)
    IN  [k \in DOMAIN r |-> plus(startDate, Bag(0, r[k], 0, 0, 0, 0, 0))]

\* Interval.contains(dateTime)
IntervalContains(i, d) == isBefore(i.start, d) /\ isAfter(i.end, d)

\* new Interval(start, end) with both fields set to start
IntervalNew_startOnly(start, end) == [start |-> start, end |-> start]

\* new Interval(start, end), the private constructor
IntervalNew(start, end) == [start |-> start, end |-> end]

\* Interval.reverse(): a new interval from the end to the start
IntervalReverse(i) == IntervalNew(i.end, i.start)

---------------------------------------------------------------------------
(* Inputs of the DateTime calls *)

\* 2024-01-28, the first calendar day the receivers are drawn from
FirstDay == 19750

\* the receivers cover FirstDay .. FirstDay + DaySpan (to 2024-04-01): the
\* ends of January, leap February and March
DaySpan == 64

\* times within the day: 00:00:00.000, 00:00:00.001, 12:34:56.789, 23:59:59.999
TimesOfDay == {0, 1, 45296789, 86399999}

Instants == { [day |-> FirstDay + i, ms |-> t] : i \in 0..DaySpan, t \in TimesOfDay }

MaxMonths == 13
MaxYears == 2

\* {months, years} bags of either sign
RelativeArgs ==
    { Bag(mo, ye, 0, 0, 0, 0, 0) : mo \in (0 - MaxMonths)..MaxMonths,
                                   ye \in (0 - MaxYears)..MaxYears }

NoArg == [kind |-> "none", value |-> Zero, months |-> 0, years |-> 0, days |-> 0,
          hours |-> 0, minutes |-> 0, seconds |-> 0, millis |-> 0]

NoInterval == [start |-> Zero, end |-> Zero]

\* the receivers of the mixed calls cover FirstDay .. FirstDay + MixDaySpan
\* (to 2024-03-02)
MixDaySpan == 34

MixedInstants ==
    { [day |-> FirstDay + i, ms |-> t] : i \in 0..MixDaySpan, t \in TimesOfDay }

MaxMixMonths == 1
MaxMixYears == 1
MaxDays == 1
HourVals == {-25, 0, 12}
MinuteVals == {0, 30}
SecondVals == {0, 15}
MilliVals == {0, 500}

\* bags of days, hours, minutes, seconds and millis only
AbsoluteBags ==
    { Bag(0, 0, da, ho, mi, se, ml) :
        da \in (0 - MaxDays)..MaxDays, ho \in HourVals, mi \in MinuteVals,
        se \in SecondVals, ml \in MilliVals }

\* bags combining non-negative {months, years} with an absolute part
MixedBags ==
    { [b EXCEPT !.months = mo, !.years = ye] :
        b \in AbsoluteBags, mo \in 0..MaxMixMonths, ye \in 0..MaxMixYears }

\* the arguments plus()/minus() accept: bags, numbers, Duration objects
MixedArgs ==
    MixedBags \cup { Number(DurationFrom(b)) : b \in AbsoluteBags }
              \cup { DurationObject(DurationFrom(b)) : b \in AbsoluteBags }

---------------------------------------------------------------------------
(* The calls on a DateTime *)

InitDateTime ==
    /\ pc = "ready"
    /\ recv \in Instants
    /\ call = [op |-> "none", arg |-> NoArg]
    /\ ret = recv
    /\ clock = recv
    /\ iv = NoInterval
    /\ via = [kind |-> "none", n |-> 0]
    /\ out = << >>

InitMixed ==
    /\ pc = "ready"
    /\ recv \in MixedInstants
    /\ call = [op |-> "none", arg |-> NoArg]
    /\ ret = recv
    /\ clock = recv
    /\ iv = NoInterval
    /\ via = [kind |-> "none", n |-> 0]
    /\ out = << >>

\* recv.plus(a)
Plus(a) ==
    /\ pc = "ready"
    /\ pc' = "done"
    /\ call' = [op |-> "plus", arg |-> a]
    /\ ret' = plus(recv, a)
    /\ UNCHANGED <<recv, clock, iv, via, out>>

\* recv.minus(a)
Minus(a) ==
    /\ pc = "ready"
    /\ pc' = "done"
    /\ call' = [op |-> "minus", arg |-> a]
    /\ ret' = minus(recv, a)
    /\ UNCHANGED <<recv, clock, iv, via, out>>

PlusRelative == \E a \in RelativeArgs : Plus(a)

MinusRelative == \E a \in RelativeArgs : Minus(a)

NextRelative == PlusRelative \/ MinusRelative

\* plus() and minus() with {months, years} bags
SpecRelative == InitDateTime /\ [][NextRelative]_vars

OrderSpan == 5

\* instants of the days FirstDay .. FirstDay + OrderSpan (2024-01-28 to
\* 2024-02-02)
OrderInstants ==
    { [day |-> FirstDay + i, ms |-> t] : i \in 0..OrderSpan, t \in TimesOfDay }

\* l is as dates.sort((a, b) => a.compare(b)) leaves it
Sorted(l) ==
    \A k \in 1..(Len(l) - 1) : Leq(compare(l[k], l[k + 1]), Zero)

\* out holds a list of two instants sorted with compare
InitSorted ==
    /\ pc = "ready"
    /\ \E a \in OrderInstants, b \in OrderInstants :
          /\ out = <<a, b>>
          /\ Sorted(out)
    /\ recv = out[1]
    /\ call = [op |-> "none", arg |-> NoArg]
    /\ ret = recv
    /\ clock = recv
    /\ iv = NoInterval
    /\ via = [kind |-> "none", n |-> 0]

\* out.map((d) => d.plus({months: m})); call.list keeps the list mapped
PlusEach ==
    /\ pc = "ready"
    /\ pc' = "done"
    /\ \E m \in 0..MaxMonths :
          /\ call' = [op |-> "plus", arg |-> Bag(m, 0, 0, 0, 0, 0, 0),
                      list |-> out]
          /\ out' = [k \in DOMAIN out |-> plus(out[k], Bag(m, 0, 0, 0, 0, 0, 0))]
    /\ UNCHANGED <<recv, ret, clock, iv, via>>

\* the same {months} bag added to every instant of a sorted list
SpecOrder == InitSorted /\ [][PlusEach]_vars

PlusMixed == \E a \in MixedArgs : Plus(a)

MinusMixed == \E a \in MixedArgs : Minus(a)

NextMixed == PlusMixed \/ MinusMixed

\* plus() and minus() with bags that carry an absolute part, numbers and
\* Duration objects
SpecMixed == InitMixed /\ [][NextMixed]_vars

---------------------------------------------------------------------------
(* Inputs of the Interval calls *)

IvFirstYear == 2024
IvYearSpan == 1
IvDayPad == 1

\* 2024-02-29
LeapDay == DayFromYear(2024) + 59

\* the days around the starts of the years IvFirstYear .. IvFirstYear +
\* IvYearSpan, and a leap day
IvDays ==
    { DayFromYear(y) + o : y \in IvFirstYear..(IvFirstYear + IvYearSpan),
                           o \in (0 - IvDayPad)..IvDayPad } \cup {LeapDay}

\* times within the day: 00:00:00.000, 06:00:00.000, 12:00:00.000, 23:59:59.999
IvTimes == {0, 21600000, 43200000, 86399999}

IvInstants == { [day |-> d, ms |-> t] : d \in IvDays, t \in IvTimes }

MaxSinceNow == 3

---------------------------------------------------------------------------
(* The calls on an Interval *)

\* the interval was made by Interval.between(start, end), in either order
InitBetween ==
    /\ pc = "ready"
    /\ \E s \in IvInstants, e \in IvInstants : iv = IntervalBetween(s, e)
    /\ via = [kind |-> "between", n |-> 0]
    /\ clock = iv.start
    /\ recv = iv.start
    /\ ret = iv.start
    /\ call = [op |-> "none", arg |-> NoArg]
    /\ out = << >>

\* no interval yet; the clock shows any of the instants
InitClock ==
    /\ pc = "new"
    /\ clock \in IvInstants
    /\ iv = NoInterval
    /\ via = [kind |-> "none", n |-> 0]
    /\ recv = clock
    /\ ret = clock
    /\ call = [op |-> "none", arg |-> NoArg]
    /\ out = << >>

\* Interval.days(n)
DaysFactory ==
    /\ pc = "new"
    /\ \E n \in (0 - MaxSinceNow)..MaxSinceNow :
          /\ iv' = IntervalOfDays(clock, n)
          /\ via' = [kind |-> "days", n |-> n]
    /\ pc' = "ready"
    /\ UNCHANGED <<recv, call, ret, clock, out>>

\* iv.days()
Days ==
    /\ pc = "ready"
    /\ pc' = "done"
    /\ call' = [op |-> "days", arg |-> NoArg]
    /\ out' = IntervalDays(iv)
    /\ UNCHANGED <<recv, ret, clock, iv, via>>

\* iv.years()
Years ==
    /\ pc = "ready"
    /\ pc' = "done"
    /\ call' = [op |-> "years", arg |-> NoArg]
    /\ out' = IntervalYears(iv)
    /\ UNCHANGED <<recv, ret, clock, iv, via>>

NextInterval == Days \/ Years

\* days() and years() of the intervals made by Interval.between
SpecInterval == InitBetween /\ [][NextInterval]_vars

NextSinceNow == DaysFactory \/ Days \/ Years

\* days() and years() of the intervals made by Interval.days(n)
SpecSinceNow == InitClock /\ [][NextSinceNow]_vars

\* iv.days() of the earlier revision, after iv.days(); ret holds its list
DaysEarlier ==
    /\ pc = "done"
    /\ call.op = "days"
    /\ call' = [op |-> "days.earlier", arg |-> NoArg]
    /\ ret' = IntervalDaysEarlier(iv)
    /\ UNCHANGED <<pc, recv, clock, iv, via, out>>

NextRevisions == Days \/ DaysEarlier

\* both revisions of days() on the intervals made by Interval.between
SpecRevisions == InitBetween /\ [][NextRevisions]_vars

\* iv.reverse()
Reverse ==
    /\ pc = "ready"
    /\ pc' = "done"
    /\ call' = [op |-> "reverse", arg |-> NoArg]
    /\ ret' = IntervalReverse(iv)
    /\ UNCHANGED <<recv, clock, iv, via, out>>

\* iv.reverse().reverse(): the result of reverse() is reversed again
ReverseAgain ==
    /\ pc = "done"
    /\ call.op = "reverse"
    /\ call' = [op |-> "reverse.reverse", arg |-> NoArg]
    /\ ret' = IntervalReverse(ret)
    /\ UNCHANGED <<pc, recv, clock, iv, via, out>>

NextReverse == Reverse \/ ReverseAgain

\* reverse() of the intervals made by Interval.between
SpecReverse == InitBetween /\ [][NextReverse]_vars

---------------------------------------------------------------------------
(* Calls that read the wall clock *)

MaxClockDays == 1
MaxNowCalls == 2

\* the values the wall clock shows
ClockInstants ==
    { [day |-> d, ms |-> t] : d \in LeapDay..(LeapDay + MaxClockDays),
                              t \in IvTimes }

\* no call yet; `out` lists, for every call of DateTime.now() so far, what
\* the clock showed at the call and the instance the call returned
InitNow ==
    /\ pc = "new"
    /\ clock \in ClockInstants
    /\ iv = NoInterval
    /\ via = [kind |-> "none", n |-> 0]
    /\ recv = clock
    /\ ret = clock
    /\ call = [op |-> "none", arg |-> NoArg]
    /\ out = << >>

\* the wall clock advances
Tick ==
    /\ \E t \in ClockInstants : Less(clock, t) /\ clock' = t
    /\ UNCHANGED <<pc, recv, call, ret, iv, via, out>>

\* DateTime.now() on the first call, and its result on every later call
Now_cached ==
    /\ pc = "new"
    /\ Len(out) < MaxNowCalls
    /\ call' = [op |-> "now", arg |-> NoArg]
    /\ ret' = IF out = << >> THEN DateTimeNow(clock) ELSE out[1].value
    /\ out' = Append(out, [at |-> clock, value |-> ret'])
    /\ UNCHANGED <<pc, recv, clock, iv, via>>

\* DateTime.now()
Now ==
    /\ pc = "new"
    /\ Len(out) < MaxNowCalls
    /\ call' = [op |-> "now", arg |-> NoArg]
    /\ ret' = DateTimeNow(clock)
    /\ out' = Append(out, [at |-> clock, value |-> ret'])
    /\ UNCHANGED <<pc, recv, clock, iv, via>>

\* Interval.days(n), while the wall clock goes on: it may show a later value
\* when the call returns
DaysSinceNow ==
    /\ pc = "new"
    /\ \E n \in (0 - MaxSinceNow)..MaxSinceNow :
          /\ iv' = IntervalOfDays(DateTimeNow(clock), n)
          /\ via' = [kind |-> "days", n |-> n]
    /\ \E t \in ClockInstants : Leq(clock, t) /\ clock' = t
    /\ pc' = "ready"
    /\ call' = [op |-> "Interval.days", arg |-> NoArg]
    /\ UNCHANGED <<recv, ret, out>>

NextClock == Tick \/ Now \/ DaysSinceNow

\* DateTime.now() and Interval.days(n) under a wall clock that advances
SpecClock == InitNow /\ [][NextClock]_vars

\* iv.contains(d)
Contains(d) ==
    /\ pc = "ready"
    /\ pc' = "done"
    /\ call' = [op |-> "contains", arg |-> d]
    /\ ret' = IntervalContains(iv, d)
    /\ UNCHANGED <<recv, clock, iv, via, out>>

ContainsAny == \E d \in IvInstants : Contains(d)

NextContains == ContainsAny

\* contains() of the intervals made by Interval.between
SpecContains == InitBetween /\ [][NextContains]_vars

---------------------------------------------------------------------------
(* The calls that read a DateTime *)

Units == {"second", "minute", "hour", "day", "month", "year"}

\* 2023-12-31, 2024-01-01, 2024-02-10, 2024-02-29, 2024-04-30, 2025-02-28
UnitDays ==
    { MakeDay(2023, 11, 31), MakeDay(2024, 0, 1), MakeDay(2024, 1, 10),
      MakeDay(2024, 1, 29), MakeDay(2024, 3, 30), MakeDay(2025, 1, 28) }

\* times within the day at both ends of a second, a minute, an hour and the
\* day, and 12:34:56.789
UnitTimes == {0, 1, 999, 1000, 59999, 60000, 3599999, 3600000, 45296789, 86399999}

UnitInstants == { [day |-> d, ms |-> t] : d \in UnitDays, t \in UnitTimes }

InitUnits ==
    /\ pc = "ready"
    /\ recv \in UnitInstants
    /\ ret = recv
    /\ clock = recv
    /\ call = [op |-> "none", arg |-> NoArg]
    /\ iv = NoInterval
    /\ via = [kind |-> "none", n |-> 0]
    /\ out = << >>

\* recv.startOf<Unit>()
StartOf(u) ==
    /\ pc = "ready"
    /\ pc' = "done"
    /\ call' = [op |-> "startOf", unit |-> u]
    /\ ret' = startOf(recv, u)
    /\ UNCHANGED <<recv, clock, iv, via, out>>

\* recv.endOf<Unit>()
EndOf(u) ==
    /\ pc = "ready"
    /\ pc' = "done"
    /\ call' = [op |-> "endOf", unit |-> u]
    /\ ret' = endOf(recv, u)
    /\ UNCHANGED <<recv, clock, iv, via, out>>

StartOfUnit == \E u \in Units : StartOf(u)

EndOfUnit == \E u \in Units : EndOf(u)

NextUnits == StartOfUnit \/ EndOfUnit

\* startOf<Unit>() and endOf<Unit>()
SpecUnits == InitUnits /\ [][NextUnits]_vars

\* recv.isSame<Unit>(d)
IsSame(d, u) ==
    /\ pc = "ready"
    /\ pc' = "done"
    /\ call' = [op |-> "isSame", arg |-> d, unit |-> u]
    /\ ret' = isSame(recv, d, u)
    /\ UNCHANGED <<recv, clock, iv, via, out>>

IsSameUnit == \E d \in UnitInstants, u \in Units : IsSame(d, u)

NextSame == IsSameUnit

\* isSame<Unit>() of two instants
SpecSame == InitUnits /\ [][NextSame]_vars

\* the instants that are compared: around the end of 2023 and around the
\* epoch
CmpInstants ==
    { x \in UnitInstants : /\ x.day \in {MakeDay(2023, 11, 31), MakeDay(2024, 0, 1)}
                           /\ x.ms \in {0, 1, 86399999} }
        \cup {Zero, Ms(-1, 86399999)}

InitCompare ==
    /\ pc = "ready"
    /\ recv \in CmpInstants
    /\ ret = recv
    /\ clock = recv
    /\ call = [op |-> "none", arg |-> NoArg]
    /\ iv = NoInterval
    /\ via = [kind |-> "none", n |-> 0]
    /\ out = << >>

\* recv.isBefore(d)
IsBefore(d) ==
    /\ pc = "ready"
    /\ pc' = "done"
    /\ call' = [op |-> "isBefore", arg |-> d]
    /\ ret' = isBefore(recv, d)
    /\ UNCHANGED <<recv, clock, iv, via, out>>

\* recv.isAfter(d)
IsAfter(d) ==
    /\ pc = "ready"
    /\ pc' = "done"
    /\ call' = [op |-> "isAfter", arg |-> d]
    /\ ret' = isAfter(recv, d)
    /\ UNCHANGED <<recv, clock, iv, via, out>>

\* recv.equals(d)
Equals(d) ==
    /\ pc = "ready"
    /\ pc' = "done"
    /\ call' = [op |-> "equals", arg |-> d]
    /\ ret' = equals(recv, d)
    /\ UNCHANGED <<recv, clock, iv, via, out>>

\* recv.compare(d)
Compare(d) ==
    /\ pc = "ready"
    /\ pc' = "done"
    /\ call' = [op |-> "compare", arg |-> d]
    /\ ret' = compare(recv, d)
    /\ UNCHANGED <<recv, clock, iv, via, out>>

\* recv.isBetween(s, e)
IsBetween(s, e) ==
    /\ pc = "ready"
    /\ pc' = "done"
    /\ call' = [op |-> "isBetween", arg |-> s, end |-> e]
    /\ ret' = isBetween(recv, s, e)
    /\ UNCHANGED <<recv, clock, iv, via, out>>

IsBeforeAny == \E d \in CmpInstants : IsBefore(d)

IsAfterAny == \E d \in CmpInstants : IsAfter(d)

EqualsAny == \E d \in CmpInstants : Equals(d)

CompareAny == \E d \in CmpInstants : Compare(d)

IsBetweenAny == \E s \in CmpInstants, e \in CmpInstants : IsBetween(s, e)

NextCompare ==
    \/ IsBeforeAny
    \/ IsAfterAny
    \/ EqualsAny
    \/ CompareAny
    \/ IsBetweenAny

\* the comparisons of two instants
SpecCompare == InitCompare /\ [][NextCompare]_vars

---------------------------------------------------------------------------
(* The unit conversions of a Duration *)

MaxConvDays == 2

\* the durations Duration.from makes of bags of either sign, with halves of
\* a day, an hour, a minute and a second among them
ConvDurations ==
    { DurationFrom(Bag(0, 0, da, ho, mi, se, ml)) :
        da \in (0 - MaxConvDays)..MaxConvDays, ho \in {-12, 0, 1, 12},
        mi \in {0, 30}, se \in {0, 30}, ml \in {-500, 0, 1, 500} }

\* {round: 'down'}, {round: 'up'}, {round: true}
Rounds == {"down", "up", "nearest"}

\* recv holds the millisecond value of the Duration
InitDuration ==
    /\ pc = "ready"
    /\ recv \in ConvDurations
    /\ ret = recv
    /\ clock = Zero
    /\ call = [op |-> "none", arg |-> NoArg]
    /\ iv = NoInterval
    /\ via = [kind |-> "none", n |-> 0]
    /\ out = << >>

\* recv.seconds({round})
Seconds(round) ==
    /\ pc = "ready"
    /\ pc' = "done"
    /\ call' = [op |-> "convert", unit |-> "seconds", round |-> round]
    /\ ret' = DurationSeconds(recv, round)
    /\ UNCHANGED <<recv, clock, iv, via, out>>

\* recv.minutes({round})
Minutes(round) ==
    /\ pc = "ready"
    /\ pc' = "done"
    /\ call' = [op |-> "convert", unit |-> "minutes", round |-> round]
    /\ ret' = DurationMinutes(recv, round)
    /\ UNCHANGED <<recv, clock, iv, via, out>>

\* recv.hours({round})
Hours(round) ==
    /\ pc = "ready"
    /\ pc' = "done"
    /\ call' = [op |-> "convert", unit |-> "hours", round |-> round]
    /\ ret' = DurationHours(recv, round)
    /\ UNCHANGED <<recv, clock, iv, via, out>>

\* recv.days({round})
DaysOf(round) ==
    /\ pc = "ready"
    /\ pc' = "done"
    /\ call' = [op |-> "convert", unit |-> "days", round |-> round]
    /\ ret' = DurationDays(recv, round)
    /\ UNCHANGED <<recv, clock, iv, via, out>>

SecondsRounded == \E round \in Rounds : Seconds(round)

MinutesRounded == \E round \in Rounds : Minutes(round)

HoursRounded == \E round \in Rounds : Hours(round)

DaysRounded == \E round \in Rounds : DaysOf(round)

NextConvert ==
    \/ SecondsRounded
    \/ MinutesRounded
    \/ HoursRounded
    \/ DaysRounded

\* the rounded unit conversions of a Duration
SpecConvert == InitDuration /\ [][NextConvert]_vars

\* recv.iso()
Iso ==
    /\ pc = "ready"
    /\ pc' = "done"
    /\ call' = [op |-> "iso", arg |-> NoArg]
    /\ ret' = DurationIso(recv)
    /\ UNCHANGED <<recv, clock, iv, via, out>>

NextIso == Iso

\* iso() of a Duration
SpecIso == InitDuration /\ [][NextIso]_vars

---------------------------------------------------------------------------
(* The calls of DateTime.from *)

\* the values DateTime.from is given that are not component bags
FromNumbers == { NumberLike(v) : v \in MixedInstants \cup {NaN, PosInfinity, NegInfinity} }
FromDates == { DateLike(t) : t \in {Zero, Ms(FirstDay, 45296789), NaN} }
FromDateTimes == { DateTimeLike(v) : v \in {Zero, Ms(FirstDay, 45296789)} }
FromOthers == { Other(t) : t \in {"undefined", "null", "emptyObject"} }

\* the years of the component bags: a common year, a leap year and a year
\* below 100
FromYears == {50, 2023, 2024}
FromDaysOfYear == {-1, 0, 1, 60, 365, 366, 367}
FromMonths == {0, 1, 2, 4, 12, 13}
FromDaysOfMonth == {0, 1, 28, 29, 30, 31, 32}

\* strings that are no dates, of the lengths the switch tells apart, and
\* YYYY-DDD strings
FromStrings ==
    { OtherString(len) : len \in {4, 8, 10, 12} }
        \cup { OrdinalString(y, doy) : y \in FromYears, doy \in {0, 1, 366, 367} }

\* the values of a time field: missing, or one of these
FromHours == {-1, 23, 24}
FromMinutes == {59, 60}
FromSeconds == {59, 60}
FromMilliseconds == {999, 1000}

\* the sets of time keys a bag may carry
TimeKeys == SUBSET {"hour", "minute", "second", "millisecond"}

\* {year, dayOfYear} bags, with any of the time fields
OrdinalBags ==
    { Components({"year", "dayOfYear"} \cup tk, y, doy, 0, 0,
                 IF "hour" \in tk THEN h ELSE 0,
                 IF "minute" \in tk THEN mi ELSE 0,
                 IF "second" \in tk THEN se ELSE 0,
                 IF "millisecond" \in tk THEN ml ELSE 0) :
        tk \in TimeKeys, y \in FromYears, doy \in FromDaysOfYear,
        h \in FromHours, mi \in FromMinutes, se \in FromSeconds,
        ml \in FromMilliseconds }

\* {year, month, dayOfMonth} bags, with any of the time fields, and bags
\* that lack the month or the day
CalendarBags ==
    { Components({"year", "month", "dayOfMonth"} \cup tk, y, 0, mo, dom,
                 IF "hour" \in tk THEN h ELSE 0,
                 IF "minute" \in tk THEN mi ELSE 0,
                 IF "second" \in tk THEN se ELSE 0,
                 IF "millisecond" \in tk THEN ml ELSE 0) :
        tk \in TimeKeys, y \in FromYears, mo \in FromMonths,
        dom \in FromDaysOfMonth,
        h \in FromHours, mi \in FromMinutes, se \in FromSeconds,
        ml \in FromMilliseconds }
      \cup { Components({"year", "month"}, y, 0, mo, 0, 0, 0, 0, 0) :
                y \in FromYears, mo \in FromMonths }
      \cup { Components({"year", "dayOfMonth"}, y, 0, 0, dom, 0, 0, 0, 0) :
                y \in FromYears, dom \in FromDaysOfMonth }
      \cup { Components({"year"}, y, 0, 0, 0, 0, 0, 0, 0) : y \in FromYears }

\* nothing has been constructed yet
InitFrom ==
    /\ pc = "new"
    /\ recv = Zero
    /\ ret = Zero
    /\ clock = Zero
    /\ call = [op |-> "none", arg |-> NoArg]
    /\ iv = NoInterval
    /\ via = [kind |-> "none", n |-> 0]
    /\ out = << >>

\* DateTime.from(d)
From(d) ==
    /\ pc = "new"
    /\ pc' = "done"
    /\ call' = [op |-> "from", arg |-> d]
    /\ ret' = DateTimeFrom(d)
    /\ UNCHANGED <<recv, clock, iv, via, out>>

FromNumber == \E d \in FromNumbers : From(d)

FromString == \E d \in FromStrings : From(d)

FromDate == \E d \in FromDates : From(d)

FromDateTime == \E d \in FromDateTimes : From(d)

FromOther == \E d \in FromOthers : From(d)

FromOrdinal == \E d \in OrdinalBags : From(d)

FromCalendar == \E d \in CalendarBags : From(d)

NextFrom ==
    \/ FromNumber
    \/ FromString
    \/ FromDate
    \/ FromDateTime
    \/ FromOther
    \/ FromOrdinal
    \/ FromCalendar

\* DateTime.from with each kind of value
SpecFrom == InitFrom /\ [][NextFrom]_vars

YrFirstYear == 2022
YrSpan == 4

\* January 1 and June 30 (July 1 in a common year) of the years YrFirstYear
\* .. YrFirstYear + YrSpan
YrDays == { DayFromYear(y) + o : y \in YrFirstYear..(YrFirstYear + YrSpan),
                                o \in {0, 181} }

\* 00:00:00.000 and 12:00:00.000
YrTimes == {0, 43200000}

YrInstants == { [day |-> d, ms |-> t] : d \in YrDays, t \in YrTimes }

\* the interval was made by Interval.between(start, end), in either order,
\* over several calendar years
InitYears ==
    /\ pc = "ready"
    /\ \E s \in YrInstants, e \in YrInstants : iv = IntervalBetween(s, e)
    /\ via = [kind |-> "between", n |-> 0]
    /\ clock = iv.start
    /\ recv = iv.start
    /\ ret = iv.start
    /\ call = [op |-> "none", arg |-> NoArg]
    /\ out = << >>

NextYears == Years

\* years() of intervals that span several calendar years
SpecYears == InitYears /\ [][NextYears]_vars

---------------------------------------------------------------------------
(* Every operation of a Duration, with what it ends in *)

\* a - b on numbers that may be NaN or infinite
NumberSub(a, b) ==
    IF a = NaN \/ b = NaN THEN NaN
    ELSE IF a \in {PosInfinity, NegInfinity}
         THEN (IF a = b THEN NaN ELSE a)
    ELSE IF b = PosInfinity THEN NegInfinity
    ELSE IF b = NegInfinity THEN PosInfinity
    ELSE Sub(a, b)

\* value || 0
OrZero(v) == IF v = NaN THEN Zero ELSE v

\* Duration.from(duration): a number, a Duration or a bag makes a Duration,
\* anything else is an error
DurationFromAny(d) ==
    IF d.kind \in {"number", "Duration", "bag"}
    THEN Instance(DurationFrom(d))
    ELSE Throws("Invalid type for duration")

\* Duration.between that takes a start DateTime.from rejects as the epoch
DurationBetweenAny_lenient(start, end) ==
    LET startDate == DateTimeFrom(start)
        endDate   == DateTimeFrom(end)
    IN  IF endDate.threw THEN endDate
        ELSE IF startDate.threw THEN Instance(OrZero(endDate.value))
        ELSE Instance(OrZero(NumberSub(endDate.value, startDate.value)))

\* Duration.between(start, end): both arguments go through DateTime.from,
\* whose error ends the call; the difference is the only field of the bag
\* handed to Duration.from
DurationBetweenAny(start, end) ==
    LET startDate == DateTimeFrom(start)
        endDate   == DateTimeFrom(end)
    IN  IF startDate.threw THEN startDate
        ELSE IF endDate.threw THEN endDate
        ELSE Instance(OrZero(NumberSub(endDate.value, startDate.value)))

\* Duration.days(n), hours(n), minutes(n), seconds(n), millis(n)
DurationOf(unit, n) ==
    DurationFromAny(Bag(0, 0,
                        IF unit = "days" THEN n ELSE 0,
                        IF unit = "hours" THEN n ELSE 0,
                        IF unit = "minutes" THEN n ELSE 0,
                        IF unit = "seconds" THEN n ELSE 0,
                        IF unit = "millis" THEN n ELSE 0))

\* v.plus(duration)
DurationPlus(v, d) == Add(v, DurationFrom(d))

\* v.minus(duration)
DurationMinus(v, d) == Sub(v, DurationFrom(d))

\* v.abs()
DurationAbs(v) == MathAbs(v)

\* v.seconds / minutes / hours / days ({round})
DurationConvert(v, unit, round) ==
    CASE unit = "seconds" -> DurationSeconds(v, round)
      [] unit = "minutes" -> DurationMinutes(v, round)
      [] unit = "hours" -> DurationHours(v, round)
      [] unit = "days" -> DurationDays(v, round)

\* what Duration.from is given: numbers, Durations, bags, and undefined
DurationLikes ==
    { Number(v) : v \in {Zero, Ms(1, 500), Ms(-2, 0), NaN, PosInfinity} }
        \cup { DurationObject(v) : v \in {Zero, Ms(-1, 1)} }
        \cup AbsoluteBags
        \cup { [NoArg EXCEPT !.kind = "undefined"] }

\* what Duration.between is given: numbers, strings, DateTimes and component
\* bags, some of which DateTime.from rejects
BetweenLikes ==
    { NumberLike(v) : v \in {Zero, Ms(FirstDay, 1), NaN, PosInfinity} }
        \cup { OtherString(12), DateTimeLike(Ms(FirstDay + 1, 0)) }
        \cup { Components({"year", "dayOfYear"}, 2024, doy, 0, 0, 0, 0, 0, 0) :
                 doy \in {60, 367} }

ConvertUnits == {"seconds", "minutes", "hours", "days"}

FactoryUnits == ConvertUnits \cup {"millis"}

MaxFactory == 2

\* Duration.from(d)
FromDuration(d) ==
    /\ pc = "ready"
    /\ pc' = "done"
    /\ call' = [op |-> "Duration.from", arg |-> d]
    /\ ret' = DurationFromAny(d)
    /\ UNCHANGED <<recv, clock, iv, via, out>>

\* Duration.between(s, e)
BetweenDuration(s, e) ==
    /\ pc = "ready"
    /\ pc' = "done"
    /\ call' = [op |-> "Duration.between", arg |-> s, end |-> e]
    /\ ret' = DurationBetweenAny(s, e)
    /\ UNCHANGED <<recv, clock, iv, via, out>>

\* Duration.days(n), ..., Duration.millis(n)
FactoryDuration(u, n) ==
    /\ pc = "ready"
    /\ pc' = "done"
    /\ call' = [op |-> "Duration.of", unit |-> u, n |-> n]
    /\ ret' = DurationOf(u, n)
    /\ UNCHANGED <<recv, clock, iv, via, out>>

\* recv.plus(d)
PlusDuration(d) ==
    /\ pc = "ready"
    /\ pc' = "done"
    /\ call' = [op |-> "Duration.plus", arg |-> d]
    /\ ret' = Instance(DurationPlus(recv, d))
    /\ UNCHANGED <<recv, clock, iv, via, out>>

\* recv.minus(d)
MinusDuration(d) ==
    /\ pc = "ready"
    /\ pc' = "done"
    /\ call' = [op |-> "Duration.minus", arg |-> d]
    /\ ret' = Instance(DurationMinus(recv, d))
    /\ UNCHANGED <<recv, clock, iv, via, out>>

\* recv.abs()
AbsDuration ==
    /\ pc = "ready"
    /\ pc' = "done"
    /\ call' = [op |-> "Duration.abs", arg |-> NoArg]
    /\ ret' = Instance(DurationAbs(recv))
    /\ UNCHANGED <<recv, clock, iv, via, out>>

\* recv.seconds({round}), ..., recv.days({round})
ConvertDuration(u, round) ==
    /\ pc = "ready"
    /\ pc' = "done"
    /\ call' = [op |-> "Duration.convert", unit |-> u, round |-> round]
    /\ ret' = Instance(DurationConvert(recv, u, round))
    /\ UNCHANGED <<recv, clock, iv, via, out>>

\* recv.iso()
IsoDuration ==
    /\ pc = "ready"
    /\ pc' = "done"
    /\ call' = [op |-> "Duration.iso", arg |-> NoArg]
    /\ ret' = Instance(DurationIso(recv))
    /\ UNCHANGED <<recv, clock, iv, via, out>>

FromAnyDuration == \E d \in DurationLikes : FromDuration(d)

BetweenAnyDuration == \E s \in BetweenLikes, e \in BetweenLikes : BetweenDuration(s, e)

FactoryAnyDuration ==
    \E u \in FactoryUnits, n \in (0 - MaxFactory)..MaxFactory : FactoryDuration(u, n)

PlusAnyDuration == \E d \in AbsoluteBags : PlusDuration(d)

MinusAnyDuration == \E d \in AbsoluteBags : MinusDuration(d)

ConvertAnyDuration == \E u \in ConvertUnits, round \in Rounds : ConvertDuration(u, round)

NextDuration ==
    \/ FromAnyDuration
    \/ BetweenAnyDuration
    \/ FactoryAnyDuration
    \/ PlusAnyDuration
    \/ MinusAnyDuration
    \/ AbsDuration
    \/ ConvertAnyDuration
    \/ IsoDuration

\* the durations the instance operations are called on
OpDurations == {Zero, Ms(0, 1500), Ms(1, 9000000), Ms(-1, 1), Ms(-3, 43200000)}

InitOpDuration ==
    /\ pc = "ready"
    /\ recv \in OpDurations
    /\ ret = recv
    /\ clock = Zero
    /\ call = [op |-> "none", arg |-> NoArg]
    /\ iv = NoInterval
    /\ via = [kind |-> "none", n |-> 0]
    /\ out = << >>

\* every operation of a Duration
SpecDuration == InitOpDuration /\ [][NextDuration]_vars

---------------------------------------------------------------------------
(* Sequences of calls on one DateTime, Duration or Interval.  via.kind     *)
(* tells which the receiver is: a DateTime or Duration has its value in    *)
(* recv, an Interval its start and end in iv.  Each call leaves its result *)
(* in ret and more calls may follow.                                       *)

\* 2024-01-31 and 2024-02-29, at 00:00:00.000 and 12:34:56.789
SeqInstants ==
    { [day |-> d, ms |-> t] : d \in {MakeDay(2024, 0, 31), LeapDay},
                              t \in {0, 45296789} }

\* {months: 1}, {years: -1}, {days: 1, hours: 12}, {millis: -1}
SeqBags ==
    { Bag(1, 0, 0, 0, 0, 0, 0), Bag(0, -1, 0, 0, 0, 0, 0),
      Bag(0, 0, 1, 12, 0, 0, 0), Bag(0, 0, 0, 0, 0, 0, -1) }

Formats == {"YYYY", "YYYY-DDD", "YYYY-MM-DD", "HH:mm:ss"}

InitSequence ==
    /\ pc = "ready"
    /\ \/ /\ via = [kind |-> "DateTime", n |-> 0]
          /\ recv \in SeqInstants
          /\ iv = NoInterval
       \/ /\ via = [kind |-> "Duration", n |-> 0]
          /\ recv \in OpDurations
          /\ iv = NoInterval
       \/ /\ via = [kind |-> "Interval", n |-> 0]
          /\ \E s \in SeqInstants, e \in SeqInstants : iv = IntervalBetween(s, e)
          /\ recv = iv.start
    /\ ret = recv
    /\ clock = Zero
    /\ call = [op |-> "none", arg |-> NoArg]
    /\ out = << >>

\* a call on the receiver can be made: it exists and no call is running
On(kind) == pc \in {"ready", "done"} /\ via.kind = kind

\* recv.plus(a) that stores the sum in the receiver
SeqPlus_inPlace(a) ==
    /\ On("DateTime")
    /\ pc' = "done"
    /\ call' = [op |-> "plus", arg |-> a]
    /\ recv' = plus(recv, a)
    /\ ret' = recv'
    /\ UNCHANGED <<clock, iv, via, out>>

\* recv.plus(a)
SeqPlus(a) ==
    /\ On("DateTime")
    /\ pc' = "done"
    /\ call' = [op |-> "plus", arg |-> a]
    /\ ret' = plus(recv, a)
    /\ UNCHANGED <<recv, clock, iv, via, out>>

\* recv.minus(a)
SeqMinus(a) ==
    /\ On("DateTime")
    /\ pc' = "done"
    /\ call' = [op |-> "minus", arg |-> a]
    /\ ret' = minus(recv, a)
    /\ UNCHANGED <<recv, clock, iv, via, out>>

\* recv.startOf<Unit>()
SeqStartOf(u) ==
    /\ On("DateTime")
    /\ pc' = "done"
    /\ call' = [op |-> "startOf", unit |-> u]
    /\ ret' = startOf(recv, u)
    /\ UNCHANGED <<recv, clock, iv, via, out>>

\* recv.endOf<Unit>()
SeqEndOf(u) ==
    /\ On("DateTime")
    /\ pc' = "done"
    /\ call' = [op |-> "endOf", unit |-> u]
    /\ ret' = endOf(recv, u)
    /\ UNCHANGED <<recv, clock, iv, via, out>>

\* recv.format(f)
SeqFormat(f) ==
    /\ On("DateTime")
    /\ pc' = "done"
    /\ call' = [op |-> "format", format |-> f]
    /\ ret' = format(recv, f)
    /\ UNCHANGED <<recv, clock, iv, via, out>>

\* recv.until(e): a new Interval
SeqUntil(e) ==
    /\ On("DateTime")
    /\ pc' = "done"
    /\ call' = [op |-> "until", arg |-> e]
    /\ ret' = IntervalBetween(recv, e)
    /\ UNCHANGED <<recv, clock, iv, via, out>>

\* recv.date(): the caller now holds a Date object
SeqDate ==
    /\ On("DateTime")
    /\ pc' = "done"
    /\ call' = [op |-> "date"]
    /\ ret' = dateObject(recv)
    /\ UNCHANGED <<recv, clock, iv, via, out>>

\* the caller sets the time of the Date object it got from date()
SeqSetTime(t) ==
    /\ On("DateTime")
    /\ call.op \in {"date", "setTime"}
    /\ pc' = "done"
    /\ call' = [op |-> "setTime"]
    /\ ret' = [ret EXCEPT !.time = t]
    /\ UNCHANGED <<recv, clock, iv, via, out>>

\* recv.plus(d), recv a Duration
SeqPlusDuration(d) ==
    /\ On("Duration")
    /\ pc' = "done"
    /\ call' = [op |-> "Duration.plus", arg |-> d]
    /\ ret' = DurationPlus(recv, d)
    /\ UNCHANGED <<recv, clock, iv, via, out>>

\* recv.abs()
SeqAbs ==
    /\ On("Duration")
    /\ pc' = "done"
    /\ call' = [op |-> "Duration.abs"]
    /\ ret' = DurationAbs(recv)
    /\ UNCHANGED <<recv, clock, iv, via, out>>

\* recv.seconds({round}), ..., recv.days({round})
SeqConvert(u, round) ==
    /\ On("Duration")
    /\ pc' = "done"
    /\ call' = [op |-> "Duration.convert", unit |-> u, round |-> round]
    /\ ret' = DurationConvert(recv, u, round)
    /\ UNCHANGED <<recv, clock, iv, via, out>>

\* recv.iso(), recv a Duration
SeqIso ==
    /\ On("Duration")
    /\ pc' = "done"
    /\ call' = [op |-> "Duration.iso"]
    /\ ret' = DurationIso(recv)
    /\ UNCHANGED <<recv, clock, iv, via, out>>

\* iv.days()
SeqDays ==
    /\ On("Interval")
    /\ pc' = "done"
    /\ call' = [op |-> "days"]
    /\ out' = IntervalDays(iv)
    /\ UNCHANGED <<recv, ret, clock, iv, via>>

\* iv.years()
SeqYears ==
    /\ On("Interval")
    /\ pc' = "done"
    /\ call' = [op |-> "years"]
    /\ out' = IntervalYears(iv)
    /\ UNCHANGED <<recv, ret, clock, iv, via>>

\* iv.contains(d)
SeqContains(d) ==
    /\ On("Interval")
    /\ pc' = "done"
    /\ call' = [op |-> "contains", arg |-> d]
    /\ ret' = IntervalContains(iv, d)
    /\ UNCHANGED <<recv, clock, iv, via, out>>

SeqPlusAny == \E a \in SeqBags : SeqPlus(a)

SeqMinusAny == \E a \in SeqBags : SeqMinus(a)

SeqStartOfAny == \E u \in Units : SeqStartOf(u)

SeqEndOfAny == \E u \in Units : SeqEndOf(u)

SeqFormatAny == \E f \in Formats : SeqFormat(f)

SeqUntilAny == \E e \in SeqInstants : SeqUntil(e)

SeqSetTimeAny == \E t \in SeqInstants \cup {Zero} : SeqSetTime(t)

SeqPlusDurationAny == \E d \in SeqBags : SeqPlusDuration(d)

SeqConvertAny == \E u \in ConvertUnits, round \in Rounds : SeqConvert(u, round)

SeqContainsAny == \E d \in SeqInstants : SeqContains(d)

NextSequence ==
    \/ SeqPlusAny
    \/ SeqMinusAny
    \/ SeqStartOfAny
    \/ SeqEndOfAny
    \/ SeqFormatAny
    \/ SeqUntilAny
    \/ SeqDate
    \/ SeqSetTimeAny
    \/ SeqPlusDurationAny
    \/ SeqAbs
    \/ SeqConvertAny
    \/ SeqIso
    \/ SeqDays
    \/ SeqYears
    \/ SeqContainsAny

\* any sequence of calls on one receiver
SpecSequence == InitSequence /\ [][NextSequence]_vars

---------------------------------------------------------------------------
(* Calendar expectations, stated from the Gregorian rules *)

LengthOfMonth(y, m1) ==
    IF m1 \in {4, 6, 9, 11} THEN 30
    ELSE IF m1 # 2 THEN 31
    ELSE IF (y % 4 = 0 /\ y % 100 # 0) \/ y % 400 = 0 THEN 29
    ELSE 28

\* the (year, month 1..12) reached from (y, m1) by k months, k of either sign
ShiftedYear(y, m1, k)  == (y * 12 + (m1 - 1) + k) \div 12
ShiftedMonth(y, m1, k) == ((y * 12 + (m1 - 1) + k) % 12) + 1

Smaller(a, b) == IF a < b THEN a ELSE b

\* r is x moved by k calendar months with the day clamped and the time kept
LandsOn(x, r, k) ==
    LET ty == ShiftedYear(year(x), month(x), k)
        tm == ShiftedMonth(year(x), month(x), k)
    IN  /\ year(r) = ty
        /\ month(r) = tm
        /\ dayOfMonth(r) = Smaller(dayOfMonth(x), LengthOfMonth(ty, tm))
        /\ hour(r) = hour(x)
        /\ minute(r) = minute(x)
        /\ second(r) = second(x)
        /\ millisecond(r) = millisecond(x)

Returned(op) == pc = "done" /\ call.op = op

NonNegativeRelative(a) == a.kind = "bag" /\ a.months >= 0 /\ a.years >= 0

YearsOnly(a)  == Bag(0, a.years, 0, 0, 0, 0, 0)
MonthsOnly(a) == Bag(a.months, 0, 0, 0, 0, 0, 0)
Negated(a)    == Bag(0 - a.months, 0 - a.years, 0, 0, 0, 0, 0)

\* C1: x.plus({months: m, years: y}) with m, y >= 0 is the instant of the
\* month 12*y + m months after x's month, on day min(D, days of that month),
\* at x's time of day; it never rolls over into the following month.
C1_PlusClampsIntoTargetMonth ==
    (Returned("plus") /\ NonNegativeRelative(call.arg)) =>
        LandsOn(recv, ret, 12 * call.arg.years + call.arg.months)

\* January 31 plus one month returned the last day of February
C1_Witness ==
    /\ Returned("plus")
    /\ call.arg.months = 1 /\ call.arg.years = 0
    /\ month(recv) = 1 /\ dayOfMonth(recv) = 31
    /\ month(ret) = 2 /\ dayOfMonth(ret) = 29

\* C2: x.minus({months: m, years: y}) with m, y >= 0 is the instant of the
\* month 12*y + m months before x's month, on day min(D, days of that month),
\* at x's time of day.
C2_MinusClampsIntoTargetMonth ==
    (Returned("minus") /\ NonNegativeRelative(call.arg)) =>
        LandsOn(recv, ret, 0 - (12 * call.arg.years + call.arg.months))

\* February 29 2024 minus {months: 12, years: 1} returned February 28 2022
C2_Witness ==
    /\ Returned("minus")
    /\ call.arg.months = 12 /\ call.arg.years = 1
    /\ year(recv) = 2024 /\ month(recv) = 2 /\ dayOfMonth(recv) = 29
    /\ year(ret) = 2022 /\ month(ret) = 2 /\ dayOfMonth(ret) = 28

\* C3: with months = -m and years = -y (m, y >= 0), plus equals minus of
\* {months: m, years: y} and minus equals plus of it; plus with a negative
\* relative delta never returns an instant later than x.
C3_NegativeRelativeMirrors ==
    /\ (Returned("plus") /\ call.arg.months <= 0 /\ call.arg.years <= 0) =>
           /\ ret = minus(recv, Negated(call.arg))
           /\ Leq(ret, recv)
    /\ (Returned("minus") /\ call.arg.months <= 0 /\ call.arg.years <= 0) =>
           ret = plus(recv, Negated(call.arg))

\* C5 as stated: a compound {months, years} delta equals the years applied
\* first and the months applied to the result of that.
C5_CompoundEqualsYearsThenMonths ==
    /\ (Returned("plus") /\ NonNegativeRelative(call.arg)) =>
           ret = plus(plus(recv, YearsOnly(call.arg)), MonthsOnly(call.arg))
    /\ (Returned("minus") /\ NonNegativeRelative(call.arg)) =>
           ret = minus(minus(recv, YearsOnly(call.arg)), MonthsOnly(call.arg))

\* x's day-of-month exists in x's month of the year k years away
YearStepKeepsDay(x, k) ==
    dayOfMonth(x) <= LengthOfMonth(year(x) + k, month(x))

\* C5 amended: the compound delta equals years-then-months whenever the
\* years step alone keeps x's day-of-month (x is not on February 29, or the
\* year reached is a leap year).
C5_CompoundEqualsYearsThenMonthsUnlessYearClamps ==
    /\ (/\ Returned("plus") /\ NonNegativeRelative(call.arg)
        /\ YearStepKeepsDay(recv, call.arg.years)) =>
           ret = plus(plus(recv, YearsOnly(call.arg)), MonthsOnly(call.arg))
    /\ (/\ Returned("minus") /\ NonNegativeRelative(call.arg)
        /\ YearStepKeepsDay(recv, 0 - call.arg.years)) =>
           ret = minus(minus(recv, YearsOnly(call.arg)), MonthsOnly(call.arg))

\* January 31 2024 plus {months: 13, years: 1} returned February 28 2026
C5_Witness ==
    /\ Returned("plus")
    /\ call.arg.months = 13 /\ call.arg.years = 1
    /\ year(recv) = 2024 /\ month(recv) = 1 /\ dayOfMonth(recv) = 31
    /\ year(ret) = 2026 /\ month(ret) = 2 /\ dayOfMonth(ret) = 28

\* the bag split into its two parts
RelativePart(a) == Bag(a.months, a.years, 0, 0, 0, 0, 0)
AbsolutePart(a) == Bag(0, 0, a.days, a.hours, a.minutes, a.seconds, a.millis)

\* the absolute part in milliseconds, summed field by field
AbsoluteMillis(a) ==
    Ms(a.days + (a.hours \div 24),
       (a.hours % 24) * 3600000 + a.minutes * 60000 + a.seconds * 1000 + a.millis)

PurelyAbsolute(a) ==
    a.kind \in {"number", "Duration"} \/ (a.kind = "bag" /\ a.months = 0 /\ a.years = 0)

\* C4: for a bag with non-negative {months, years} and any absolute part,
\* plus equals plus of the relative part followed by plus of the absolute
\* part (likewise minus); the relative part is resolved, clamped, against
\* x's own month and the absolute milliseconds are applied on top.
C4_RelativeThenAbsolute ==
    /\ (Returned("plus") /\ NonNegativeRelative(call.arg)) =>
           /\ ret = plus(plus(recv, RelativePart(call.arg)), AbsolutePart(call.arg))
           /\ LandsOn(recv, Sub(ret, AbsoluteMillis(call.arg)),
                      12 * call.arg.years + call.arg.months)
    /\ (Returned("minus") /\ NonNegativeRelative(call.arg)) =>
           /\ ret = minus(minus(recv, RelativePart(call.arg)), AbsolutePart(call.arg))
           /\ LandsOn(recv, Add(ret, AbsoluteMillis(call.arg)),
                      0 - (12 * call.arg.years + call.arg.months))

\* January 30 plus {months: 1, days: 1} clamped to February 29 and then
\* crossed into March
C4_Witness ==
    /\ Returned("plus")
    /\ call.arg.kind = "bag"
    /\ call.arg.months = 1 /\ call.arg.years = 0 /\ call.arg.days = 1
    /\ call.arg.hours = 0 /\ call.arg.minutes = 0
    /\ call.arg.seconds = 0 /\ call.arg.millis = 0
    /\ month(recv) = 1 /\ dayOfMonth(recv) = 30
    /\ month(ret) = 3 /\ dayOfMonth(ret) = 1

\* C6: for a purely absolute d (bag, number or Duration object),
\* x.plus(d).minus(d) and x.minus(d).plus(d) give back x.millis(), and
\* x.plus(d).millis() is x.millis() + Duration.from(d).millis().
C6_AbsoluteRoundTrip ==
    /\ (Returned("plus") /\ PurelyAbsolute(call.arg)) =>
           /\ minus(ret, call.arg) = recv
           /\ ret = Add(recv, IF call.arg.kind = "bag"
                              THEN AbsoluteMillis(call.arg)
                              ELSE call.arg.value)
    /\ (Returned("minus") /\ PurelyAbsolute(call.arg)) =>
           plus(ret, call.arg) = recv

\* a bag of -25 hours and 30 minutes was added and moved the receiver back
\* over a day boundary
C6_Witness ==
    /\ Returned("plus")
    /\ call.arg.kind = "bag"
    /\ call.arg.months = 0 /\ call.arg.years = 0
    /\ call.arg.days = 1 /\ call.arg.hours = -25 /\ call.arg.minutes = 30
    /\ Less(ret, recv)
    /\ ret.day = recv.day - 1

---------------------------------------------------------------------------
(* Interval enumeration *)

Forward(i) == Leq(i.start, i.end)

\* the end moved back one millisecond when it is exactly at 00:00:00.000
DayAdjustedEnd(i) ==
    IF i.end.ms = 0 THEN [day |-> i.end.day - 1, ms |-> MS_PER_DAY - 1] ELSE i.end

\* the calendar year of the end, the previous one when the end is exactly
\* January 1 00:00:00.000
YearAdjustedEndYear(i) ==
    IF month(i.end) = 1 /\ dayOfMonth(i.end) = 1 /\ i.end.ms = 0
    THEN year(i.end) - 1
    ELSE year(i.end)

Magnitude(n) == IF n < 0 THEN 0 - n ELSE n

\* C7: for start <= end, days() returns no instant on end's calendar day
\* when end is exactly at the start of a day, and otherwise returns some
\* instant on end's calendar day.
C7_EndDayIncludedUnlessAtMidnight ==
    (Returned("days") /\ Forward(iv)) =>
        IF iv.end.ms = 0
        THEN \A k \in DOMAIN out : out[k].day # iv.end.day
        ELSE \E k \in DOMAIN out : out[k].day = iv.end.day

C9_SinceNowReturnsNDays ==
    (Returned("days") /\ via.kind = "days" /\ via.n # 0) =>
        /\ Len(out) = Magnitude(via.n)
        /\ \A k \in DOMAIN out :
              out[k] = Add(clock, Ms(IF via.n > 0 THEN k - 1 ELSE 1 - k, 0))

C11_PastYearsGoBack ==
    (Returned("years") /\ ~Forward(iv)) =>
        /\ Len(out) >= year(iv.start) - year(iv.end)
        /\ Len(out) <= year(iv.start) - year(iv.end) + 1
        /\ \A k \in DOMAIN out :
              /\ year(out[k]) = year(iv.start) - (k - 1)
              /\ year(out[k]) <= year(iv.start)

---------------------------------------------------------------------------
(* Interval membership *)

\* C12: contains(x) is true exactly when start.millis() < x.millis() <
\* end.millis(): both end points are outside, and so is every instant
\* before start or after end.
C12_ContainsIsOpen ==
    Returned("contains") =>
        /\ ret = (Less(iv.start, call.arg) /\ Less(call.arg, iv.end))
        /\ call.arg \in {iv.start, iv.end} => ret = FALSE
        /\ (Less(call.arg, iv.start) \/ Less(iv.end, call.arg)) => ret = FALSE

\* an instant strictly inside was reported as contained
C12_WitnessInside ==
    /\ Returned("contains")
    /\ Less(iv.start, call.arg) /\ Less(call.arg, iv.end)
    /\ ret = TRUE

---------------------------------------------------------------------------
(* Construction *)

\* the time fields a bag carries are within their ranges
TimeInRange(c) ==
    /\ "hour" \in c.has => c.hour \in 0..23
    /\ "minute" \in c.has => c.minute \in 0..59
    /\ "second" \in c.has => c.second \in 0..59
    /\ "millisecond" \in c.has => c.millisecond \in 0..999

\* C13: every DateTime that was constructed holds a finite millisecond
\* value: DateTime.from of NaN, +Infinity, -Infinity, undefined or a string
\* that is no date fails.
C13_ConstructedIsFinite ==
    Returned("from") =>
        /\ ~ret.threw => NumberIsFinite(ret.value)
        /\ (call.arg.type = "number" /\ ~NumberIsFinite(call.arg.value)) =>
               ret.threw
        /\ call.arg.type \in {"undefined", "string"} => ret.threw

\* the bag carries exactly these keys
HasOnly(c, keys) == c.type = "components" /\ c.has = keys

\* a calendar bag without its month or without its day
LacksMonthOrDay(c) ==
    \/ HasOnly(c, {"year", "month"})
    \/ HasOnly(c, {"year", "dayOfMonth"})
    \/ HasOnly(c, {"year"})

\* C14: DateTime.from({year, dayOfYear}) succeeds exactly when
\* 1 <= dayOfYear <= 365 in a common year and <= 366 in a leap year, and
\* fails otherwise; on success year() and dayOfYear() are the supplied
\* values.
C14_OrdinalAcceptedIffInYear ==
    (Returned("from") /\ HasOnly(call.arg, {"year", "dayOfYear"})) =>
        /\ ~ret.threw <=>
               (1 <= call.arg.dayOfYear
                  /\ call.arg.dayOfYear <= DaysInYear(call.arg.year))
        /\ ~ret.threw =>
               /\ year(ret.value) = call.arg.year
               /\ dayOfYear(ret.value) = call.arg.dayOfYear

\* C15: DateTime.from({year, month, dayOfMonth}) succeeds exactly when
\* month is 1..12 and dayOfMonth is 1..the length of that month in that
\* year; a bag that lacks the month or the day fails; on success year(),
\* month() and dayOfMonth() are the supplied values.
C15_CalendarAcceptedIffRoundTrips ==
    /\ (Returned("from") /\ HasOnly(call.arg, {"year", "month", "dayOfMonth"})) =>
          /\ ~ret.threw <=>
                 /\ call.arg.month \in 1..12
                 /\ 1 <= call.arg.dayOfMonth
                 /\ call.arg.dayOfMonth <=
                        LengthOfMonth(call.arg.year, call.arg.month)
          /\ ~ret.threw =>
                 /\ year(ret.value) = call.arg.year
                 /\ month(ret.value) = call.arg.month
                 /\ dayOfMonth(ret.value) = call.arg.dayOfMonth
    /\ (Returned("from") /\ LacksMonthOrDay(call.arg)) => ret.threw

\* the value a time field was supplied with, 0 when it was omitted
Supplied(c, key, v) == IF key \in c.has THEN v ELSE 0

\* C16: DateTime.from of a component bag fails when hour, minute, second or
\* millisecond is outside 0..23, 0..59, 0..59, 0..999; on success hour(),
\* minute(), second() and millisecond() are the supplied values (0 when
\* omitted) and the date fields are the supplied ones.
C16_TimeFieldsNotCoerced ==
    (Returned("from") /\ call.arg.type = "components") =>
        /\ ~TimeInRange(call.arg) => ret.threw
        /\ ~ret.threw =>
              /\ hour(ret.value) = Supplied(call.arg, "hour", call.arg.hour)
              /\ minute(ret.value) = Supplied(call.arg, "minute", call.arg.minute)
              /\ second(ret.value) = Supplied(call.arg, "second", call.arg.second)
              /\ millisecond(ret.value) =
                    Supplied(call.arg, "millisecond", call.arg.millisecond)
              /\ year(ret.value) = call.arg.year
              /\ "dayOfYear" \in call.arg.has =>
                    dayOfYear(ret.value) = call.arg.dayOfYear
              /\ "dayOfYear" \notin call.arg.has =>
                    /\ month(ret.value) = call.arg.month
                    /\ dayOfMonth(ret.value) = call.arg.dayOfMonth

---------------------------------------------------------------------------
(* Units of time *)

\* C17: for every instant x and unit u, x.startOf(u) is at the start of u
\* and x.endOf(u) at the end of u, and startOf and endOf are idempotent.
C17_StartAndEndAreFixedPoints ==
    /\ Returned("startOf") =>
          /\ isStartOf(ret, call.unit)
          /\ startOf(ret, call.unit) = ret
    /\ Returned("endOf") =>
          /\ isEndOf(ret, call.unit)
          /\ endOf(ret, call.unit) = ret

\* the end of the month of an instant in February 2024 is
\* 2024-02-29T23:59:59.999
C17_WitnessEndOfFebruary ==
    /\ Returned("endOf") /\ call.unit = "month"
    /\ year(recv) = 2024 /\ month(recv) = 2 /\ dayOfMonth(recv) = 10
    /\ ret = [day |-> LeapDay, ms |-> MS_PER_DAY - 1]
    /\ isEndOf(ret, "month")

\* u is a smaller unit than v
SmallerUnit(u, v) ==
    LET rank == [w \in Units |->
                   CASE w = "second" -> 1 [] w = "minute" -> 2
                     [] w = "hour" -> 3 [] w = "day" -> 4
                     [] w = "month" -> 5 [] w = "year" -> 6]
    IN  rank[u] < rank[v]

\* C18: x.isSame<u>(y) is true exactly when x.startOf(u) <= y <= x.endOf(u);
\* it is symmetric in x and y; and two instants that are the same in a unit
\* are the same in every larger unit.
C18_SameIffWithinUnit ==
    Returned("isSame") =>
        /\ ret = (Leq(startOf(recv, call.unit), call.arg)
                    /\ Leq(call.arg, endOf(recv, call.unit)))
        /\ ret = isSame(call.arg, recv, call.unit)
        /\ ret => \A v \in Units :
                     SmallerUnit(call.unit, v) => isSame(recv, call.arg, v)

\* 2024-02-10T00:00:00.000 and 2024-02-29T23:59:59.999 are in the same
\* month
C18_WitnessSameMonth ==
    /\ Returned("isSame") /\ call.unit = "month"
    /\ recv = [day |-> MakeDay(2024, 1, 10), ms |-> 0]
    /\ call.arg = [day |-> LeapDay, ms |-> MS_PER_DAY - 1]
    /\ ret = TRUE

---------------------------------------------------------------------------
(* Order *)

\* exactly one of the three holds
ExactlyOne(p, q, r) ==
    /\ p \/ q \/ r
    /\ ~(p /\ q) /\ ~(p /\ r) /\ ~(q /\ r)

\* C19: of a.isBefore(b), a.equals(b), a.isAfter(b) exactly one holds,
\* each as the millisecond values are ordered; a.compare(b) is a.millis() -
\* b.millis(), so negative, zero or positive accordingly; a.isBetween(s, e)
\* is true exactly when s.millis() < a.millis() < e.millis().
C19_ComparisonsFollowMillis ==
    /\ (pc = "done" /\ call.op \in {"isBefore", "isAfter", "equals", "compare"}) =>
          ExactlyOne(isBefore(recv, call.arg), equals(recv, call.arg),
                     isAfter(recv, call.arg))
    /\ Returned("isBefore") => ret = Less(recv, call.arg)
    /\ Returned("isAfter") => ret = Less(call.arg, recv)
    /\ Returned("equals") => ret = (recv = call.arg)
    /\ Returned("compare") =>
          /\ Add(ret, call.arg) = recv
          /\ Less(ret, Zero) = isBefore(recv, call.arg)
          /\ (ret = Zero) = equals(recv, call.arg)
          /\ Less(Zero, ret) = isAfter(recv, call.arg)
    /\ Returned("isBetween") =>
          ret = (Less(call.arg, recv) /\ Less(recv, call.end))

\* comparing 2023-12-31T23:59:59.999 with 2024-01-01T00:00:00.000 gave -1
C19_WitnessOneMillisecondBefore ==
    /\ Returned("compare")
    /\ recv = [day |-> MakeDay(2023, 11, 31), ms |-> MS_PER_DAY - 1]
    /\ call.arg = [day |-> MakeDay(2024, 0, 1), ms |-> 0]
    /\ ret = Ms(0, -1)

---------------------------------------------------------------------------
(* Rounding *)

\* the milliseconds of a unit
Factor(unit) ==
    CASE unit = "seconds" -> 1000
      [] unit = "minutes" -> 60000
      [] unit = "hours" -> 3600000
      [] unit = "days" -> MS_PER_DAY

\* a small millisecond count as one integer
AsInteger(v) == v.day * MS_PER_DAY + v.ms

\* what a conversion of v by factor f with each rounding has to return
RoundedAsStated(v, f, round, r) ==
    LET n == AsInteger(v)
    IN  CASE round = "down" -> r * f <= n /\ n < r * f + f
          [] round = "up" -> r * f - f < n /\ n <= r * f
          [] round = "nearest" -> 2 * r * f - f <= 2 * n /\ 2 * n < 2 * r * f + f

\* a conversion returned what its rounding says, and up and down enclose
\* the quotient and are at most 1 apart
RoundingHolds ==
    Returned("convert") =>
        LET f    == Factor(call.unit)
            down == DurationReturn(recv, f, "down")
            up   == DurationReturn(recv, f, "up")
        IN  /\ RoundedAsStated(recv, f, call.round, ret)
            /\ down * f <= AsInteger(recv)
            /\ AsInteger(recv) <= up * f
            /\ up - down \in {0, 1}

\* C20: for a Duration of v milliseconds, of either sign, and a conversion
\* with factor f, round 'down' returns floor(v / f), 'up' returns
\* ceil(v / f) and round: true the nearest integer, an exact half going up;
\* down <= v / f <= up and up - down <= 1; and no conversion changes
\* millis().
C20_RoundingIsFloorCeilNearest ==
    []RoundingHolds /\ [][recv' = recv]_vars

\* -2.5 days rounded to the nearest day gave -2, and 2.5 days gave 3
C20_WitnessHalfDay ==
    /\ Returned("convert") /\ call.unit = "days" /\ call.round = "nearest"
    /\ \/ recv = Ms(-3, MS_PER_DAY \div 2) /\ ret = -2
       \/ recv = Ms(2, MS_PER_DAY \div 2) /\ ret = 3

---------------------------------------------------------------------------
(* The ISO text of a Duration *)

\* the text P[nD][T[nH][nM][nS]] of the components, zero components left
\* out, PT0S when all are zero
IsoText(D, H, M, S) ==
    IF D = 0 /\ H = 0 /\ M = 0 /\ S = 0 THEN "PT0S"
    ELSE (IF D # 0 THEN "P" \o ToString(D) \o "D" ELSE "P")
           \o (IF H # 0 \/ M # 0 \/ S # 0 THEN "T" ELSE "")
           \o (IF H # 0 THEN ToString(H) \o "H" ELSE "")
           \o (IF M # 0 THEN ToString(M) \o "M" ELSE "")
           \o (IF S # 0 THEN ToString(S) \o "S" ELSE "")

\* the whole seconds of a non-negative duration: floor(millis / 1000)
WholeSeconds(v) == v.day * 86400 + (v.ms \div 1000)

\* C21: for a non-negative Duration, iso() is P[nD][T[nH][nM][nS]] with
\* D*86400 + H*3600 + M*60 + S = floor(millis / 1000), H < 24, M < 60,
\* S < 60; zero components are left out, T is there only when a time
\* component is non-zero, and less than a second is PT0S.
C21_IsoSplitsWholeSeconds ==
    (Returned("iso") /\ Leq(Zero, recv)) =>
        LET total == WholeSeconds(recv)
            D == total \div 86400
            H == (total % 86400) \div 3600
            M == (total % 3600) \div 60
            S == total % 60
        IN  /\ D * 86400 + H * 3600 + M * 60 + S = total
            /\ ret = IsoText(D, H, M, S)
            /\ total = 0 => ret = "PT0S"

\* 2 days 12:30:30.500 was written as P2DT12H30M30S
C21_WitnessAllComponents ==
    /\ Returned("iso")
    /\ recv = Ms(2, 45030500)
    /\ ret = "P2DT12H30M30S"

---------------------------------------------------------------------------
(* Errors of Duration *)

DurationOps ==
    {"Duration.from", "Duration.between", "Duration.of", "Duration.plus",
     "Duration.minus", "Duration.abs", "Duration.convert", "Duration.iso"}

\* the argument of Duration.from is one its signature accepts
WellTyped ==
    call.op = "Duration.from" => call.arg.kind \in {"number", "Duration", "bag"}

\* C22: no operation of Duration raises an error: Duration.from,
\* Duration.between, the factories, plus, minus, abs, the conversions and
\* iso() return a value for every input their signatures accept.
C22_DurationNeverThrows ==
    (pc = "done" /\ call.op \in DurationOps /\ WellTyped) => ~ret.threw

\* C22, amended: every operation of Duration returns a value for every
\* input its signature accepts, except that Duration.between raises the
\* error of DateTime.from when DateTime.from rejects its start or its end,
\* and returns a value otherwise.
C22_DurationThrowsOnlyThroughDateTimeFrom ==
    (pc = "done" /\ call.op \in DurationOps /\ WellTyped) =>
        ret.threw = (/\ call.op = "Duration.between"
                     /\ \/ DateTimeFrom(call.arg).threw
                        \/ DateTimeFrom(call.end).threw)

\* Duration.between of a string that is no date and an instant ended in the
\* error of DateTime.from
C22_WitnessBetweenThrows ==
    /\ pc = "done" /\ call.op = "Duration.between"
    /\ call.arg = OtherString(12)
    /\ call.end = DateTimeLike(Ms(FirstDay + 1, 0))
    /\ ret = Throws("Invalid date time")

---------------------------------------------------------------------------
(* Immutability *)

\* C23: no call on a DateTime, a Duration or an Interval, and no change of
\* a Date object obtained from date(), changes the receiver: its millis()
\* (for an Interval, the millis() of its start and of its end) is after the
\* call what it was before.
C23_ReceiverNeverChanges ==
    [][recv' = recv /\ iv' = iv]_vars

\* a Date obtained from date() was set to another time than the receiver's
C23_WitnessDateObjectChanged ==
    /\ pc = "done" /\ call.op = "setTime"
    /\ ret.time # recv

---------------------------------------------------------------------------
(* Reversal *)

---------------------------------------------------------------------------
(* The wall clock *)

\* C25: every DateTime.now() returns what the clock shows at that call, so
\* a call after the clock advanced returns the later value; an instance
\* returned earlier keeps its value; and the interval of Interval.days(n)
\* spans exactly n * 86,400,000 ms however the clock advances.
C25_ClockReadAtEachCall ==
    /\ [](/\ \A k \in DOMAIN out : out[k].value = out[k].at
          /\ \A j, k \in DOMAIN out :
                (j < k /\ Less(out[j].at, out[k].at)) =>
                    Less(out[j].value, out[k].value)
          /\ via.kind = "days" => Sub(iv.end, iv.start) = Ms(via.n, 0))
    /\ [][\A k \in DOMAIN out : out'[k] = out[k]]_vars

\* DateTime.now() was called twice with the clock advanced in between, and
\* the clock advanced while Interval.days(n) ran
C25_WitnessClockAdvanced ==
    /\ Len(out) = 2
    /\ Less(out[1].value, out[2].value)
    /\ via.kind = "days" /\ via.n # 0
    /\ Less(iv.start, clock)

\* C26: for every Duration with millis() < 0 the days, hours, minutes and
\* seconds that iso() computes are all <= 0, none is written, and iso()
\* returns "PT0S", what it returns for the zero duration.
C26_IsoOfNegativeIsZero ==
    (Returned("iso") /\ Less(recv, Zero)) =>
        LET a       == Neg(recv)
            rem(f)  == 0 - (a.ms % f)
            days    == recv.day
            hours   == rem(24 * 60 * 60 * 1000) \div (60 * 60 * 1000)
            minutes == rem(60 * 60 * 1000) \div (60 * 1000)
            seconds == rem(60 * 1000) \div 1000
        IN  /\ days <= 0 /\ hours <= 0 /\ minutes <= 0 /\ seconds <= 0
            /\ hours = JsRemainder(recv, 24 * 60 * 60 * 1000) \div (60 * 60 * 1000)
            /\ minutes = JsRemainder(recv, 60 * 60 * 1000) \div (60 * 1000)
            /\ seconds = JsRemainder(recv, 60 * 1000) \div 1000
            /\ ret = "PT0S"
            /\ ret = DurationIso(Zero)

\* minus 2 days 12 hours and half a second was written as PT0S
C26_WitnessNegative ==
    /\ Returned("iso")
    /\ recv = DurationFrom(Bag(0, 0, -2, -12, 0, 0, -500))
    /\ Less(recv, Zero)
    /\ ret = "PT0S"

---------------------------------------------------------------------------
(* Order under a month shift *)

\* C27 as stated: a list sorted with compare is sorted after {months: m},
\* m >= 0, was added to every element.
C27_MonthShiftKeepsOrder ==
    (Returned("plus") /\ Sorted(call.list)) => Sorted(out)

\* C27, amended: for a <= b and m >= 0 the UTC day of a.plus({months: m}) is
\* not after that of b.plus({months: m}), and a.plus({months: m}) <=
\* b.plus({months: m}) whenever a and b are on the same UTC day or b keeps
\* its day of the month.
C27_MonthShiftKeepsDayOrder ==
    (Returned("plus") /\ Leq(call.list[1], call.list[2])) =>
        LET a == call.list[1]
            b == call.list[2]
        IN  /\ out[1].day <= out[2].day
            /\ (a.day = b.day \/ dayOfMonth(out[2]) = dayOfMonth(b)) =>
                   Leq(out[1], out[2])

\* 2024-01-31T23:59:59.999 and 2024-02-01T00:00 moved by one month to
\* 2024-02-29T23:59:59.999 and 2024-03-01T00:00
C27_WitnessClampedBeforeKept ==
    /\ Returned("plus") /\ call.arg.months = 1
    /\ call.list = <<Ms(FirstDay + 3, 86399999), Ms(FirstDay + 4, 0)>>
    /\ dayOfMonth(out[1]) = 29
    /\ Less(out[1], out[2])

---------------------------------------------------------------------------
(* The two revisions of Interval.days() *)

\* C28: for every interval whose start is at the start of a UTC day, with
\* the end later, equal or earlier, the earlier revision of days() (day
\* count rounded up) and the later one (end less 1 ms at a day start, then
\* floor + 1) return the same list; the lists differ only for a start that
\* is not at the start of a day.
C28_RevisionsAgreeFromDayStart ==
    (pc = "done" /\ call.op = "days.earlier") =>
        /\ iv.start.ms = 0 => ret = out
        /\ ret # out => iv.start.ms # 0

\* both revisions returned the same two or more days, counted backwards
\* from a start at midnight to an end that is not at midnight
C28_WitnessBackwardsFromMidnight ==
    /\ pc = "done" /\ call.op = "days.earlier"
    /\ iv.start.ms = 0 /\ iv.end.ms # 0
    /\ Less(iv.end, iv.start)
    /\ Len(ret) >= 2
    /\ ret = out

---------------------------------------------------------------------------
(* The instants of Interval.days() *)

\* C29: for an interval whose start is not after its end, every instant of
\* days() is within the interval (start <= element <= end), the instants
\* are strictly increasing, and each is on the UTC day after that of the
\* one before it.
C29_DaysWithinAndConsecutive ==
    (Returned("days") /\ Leq(iv.start, iv.end)) =>
        /\ \A k \in DOMAIN out :
              /\ Leq(iv.start, out[k])
              /\ Leq(out[k], iv.end)
        /\ \A k \in 1..(Len(out) - 1) :
              /\ Less(out[k], out[k + 1])
              /\ out[k + 1].day = out[k].day + 1

\* three or more days were returned for an interval that starts in the
\* middle of a day and ends earlier in the day
C29_WitnessSeveralDays ==
    /\ Returned("days")
    /\ Less(iv.start, iv.end)
    /\ iv.start.ms # 0 /\ iv.end.ms < iv.start.ms
    /\ Len(out) >= 3

---------------------------------------------------------------------------
(* Empty enumerations *)

\* C30 as stated: days() and years() of every interval, forward, of length
\* zero or pointing into the past, have at least one element, and the
\* first is the start.
C30_NeverEmpty ==
    (Returned("days") \/ Returned("years")) =>
        /\ Len(out) >= 1
        /\ out[1] = iv.start

\* C30, amended: days() is empty exactly when the end, less 1 ms when it is
\* at the start of a day, is before the start by a day or less, years()
\* exactly when the end, less 1 ms when it is at the start of a year, is in
\* the calendar year before that of the start; every other result, among
\* them that of every interval with start < end, has the start as its
\* first element.
C30_EmptyOnlyJustBeforeStart ==
    /\ Returned("days") =>
          /\ out = << >> <=> Sub(DayAdjustedEnd(iv), iv.start).day = -1
          /\ out # << >> => out[1] = iv.start
    /\ Returned("years") =>
          /\ out = << >> <=> YearAdjustedEndYear(iv) = year(iv.start) - 1
          /\ out # << >> => out[1] = iv.start
    /\ ((Returned("days") \/ Returned("years")) /\ Less(iv.start, iv.end)) =>
          out # << >>

\* days() of an interval from noon back to six o'clock of the same day is
\* empty
C30_WitnessEmptyWithinDay ==
    /\ Returned("days")
    /\ iv.end.day = iv.start.day
    /\ iv.start.ms = 43200000 /\ iv.end.ms = 21600000
    /\ out = << >>

====
